---------------------------- MODULE Spec2Model ----------------------------
(***************************************************************************)
(* BeichtBot: the per-guild configuration store (beichtbot/config.py) and  *)
(* the moderation pipeline of the bot (beichtbot/bot.py): rate limiting,   *)
(* word-list filtering, advisory detection, mention neutralisation,        *)
(* pseudonymous hashing and the recording of statistics and flags.         *)
(*                                                                         *)
(* Texts are sequences of one-character strings.  Python's None is the     *)
(* empty sequence and a present optional value v is <<v>>.                 *)
(***************************************************************************)
EXTENDS Integers, Sequences, FiniteSets, TLC

(***************************************************************************)
(* Characters                                                              *)
(***************************************************************************)
\* U+200B, the zero width space neutralize_mentions inserts.
ZWSP == "ZWSP"

\* The line feed.
NL == "NL"

LowerAlphabet ==
    <<"a", "b", "c", "d", "e", "f", "g", "h", "i", "j", "k", "l", "m", "n", "o", "p", "q", "r", "s", "t", "u", "v", "w", "x", "y", "z">>

UpperAlphabet ==
    <<"A", "B", "C", "D", "E", "F", "G", "H", "I", "J", "K", "L", "M", "N", "O", "P", "Q", "R", "S", "T", "U", "V", "W", "X", "Y", "Z">>

DigitChars ==
    <<"0", "1", "2", "3", "4", "5", "6", "7", "8", "9">>

Range(f) == {f[i] : i \in DOMAIN f}

IsDigit(c) == c \in Range(DigitChars)

IsLetter(c) == c \in Range(LowerAlphabet) \cup Range(UpperAlphabet)

\* \w of Python's re
IsWordChar(c) == IsLetter(c) \/ IsDigit(c) \/ c = "_"

\* \s of Python's re, and what str.strip() removes; U+200B is not white space
IsSpace(c) == c \in {" ", NL}

\* str.lower() on one character
ToLower(c) ==
    IF c \in Range(UpperAlphabet)
    THEN LowerAlphabet[CHOOSE i \in DOMAIN UpperAlphabet : UpperAlphabet[i] = c]
    ELSE c

\* str.lower()
Lower(s) == [i \in 1..Len(s) |-> ToLower(s[i])]

\* Python's `t in s` for strings
Occurs(t, s) ==
    \E i \in 0..(Len(s) - Len(t)) : SubSeq(s, i + 1, i + Len(t)) = t

\* s.startswith(p)
StartsWith(s, p) == Len(s) >= Len(p) /\ SubSeq(s, 1, Len(p)) = p

\* s.endswith(p)
EndsWith(s, p) == Len(s) >= Len(p) /\ SubSeq(s, Len(s) - Len(p) + 1, Len(s)) = p

\* str.strip()
RECURSIVE LStrip(_)
LStrip(s) == IF s # <<>> /\ IsSpace(Head(s)) THEN LStrip(Tail(s)) ELSE s

RECURSIVE RStrip(_)
RStrip(s) ==
    IF s # <<>> /\ IsSpace(s[Len(s)]) THEN RStrip(SubSeq(s, 1, Len(s) - 1)) ELSE s

Strip(s) == RStrip(LStrip(s))

(***************************************************************************)
(* config.py: neutralize_mentions                                          *)
(***************************************************************************)
RECURSIVE neutralize_mentions(_)
neutralize_mentions(text) ==
    IF text = <<>> THEN <<>>
    ELSE IF Head(text) = "@"
         THEN <<"@", ZWSP>> \o neutralize_mentions(Tail(text))
         ELSE <<Head(text)>> \o neutralize_mentions(Tail(text))

(***************************************************************************)
(* bot.py: the patterns.  A pattern is searched: it matches when it        *)
(* matches at some position.  Positions are indexes of the next character  *)
(* to consume, 1..Len(s)+1.                                                *)
(***************************************************************************)
CharAt(s, i) == IF i >= 1 /\ i <= Len(s) THEN <<s[i]>> ELSE <<>>

\* \b : exactly one side is a word character
WordBoundary(s, i) ==
    LET before == CharAt(s, i - 1) # <<>> /\ IsWordChar(s[i - 1])
        after  == CharAt(s, i) # <<>> /\ IsWordChar(s[i])
    IN  before # after

\* the positions after \d{lo,hi} consumed from position i
DigitRun(s, i, lo, hi) ==
    {j \in (i + lo)..(i + hi) :
        j <= Len(s) + 1 /\ \A k \in i..(j - 1) : IsDigit(s[k])}

\* the positions after an optional single character of class sep
OptChar(s, i, sep(_)) ==
    {i} \cup (IF CharAt(s, i) # <<>> /\ sep(s[i]) THEN {i + 1} ELSE {})

\* (?:\+\d{1,3}\s?)?
PhonePlus(s, i) ==
    {i} \cup
    (IF CharAt(s, i) = <<"+">>
     THEN UNION {OptChar(s, j, IsSpace) : j \in DigitRun(s, i + 1, 1, 3)}
     ELSE {})

\* (?:\(\d{2,4}\)\s?)?
PhoneArea(s, i) ==
    {i} \cup
    (IF CharAt(s, i) = <<"(">>
     THEN UNION {IF CharAt(s, j) = <<")">> THEN OptChar(s, j + 1, IsSpace) ELSE {}
                 : j \in DigitRun(s, i + 1, 2, 4)}
     ELSE {})

IsDashOrSpace(c) == c = "-" \/ IsSpace(c)

\* PHONE_PATTERN.search(s)
PHONE_PATTERN(s) ==
    \E i \in 1..(Len(s) + 1) :
        /\ WordBoundary(s, i)
        /\ \E a \in PhonePlus(s, i) : \E b \in PhoneArea(s, a) :
           \E c \in DigitRun(s, b, 3, 4) : \E d \in OptChar(s, c, IsDashOrSpace) :
           \E e \in DigitRun(s, d, 3, 4) : WordBoundary(s, e)

EmailLocalChar(c) == IsLetter(c) \/ IsDigit(c) \/ c \in {".", "_", "%", "+", "-"}

EmailDomainChar(c) == IsLetter(c) \/ IsDigit(c) \/ c \in {".", "-"}

\* EMAIL_PATTERN.search(s): [A-Z0-9._%+-]+@[A-Z0-9.-]+\.[A-Z]{2,}, ignoring case
EMAIL_PATTERN(s) ==
    \E at \in 2..Len(s) :
        /\ s[at] = "@"
        /\ EmailLocalChar(s[at - 1])
        /\ \E dot \in (at + 2)..(Len(s) - 2) :
            /\ \A k \in (at + 1)..(dot - 1) : EmailDomainChar(s[k])
            /\ s[dot] = "."
            /\ IsLetter(s[dot + 1])
            /\ IsLetter(s[dot + 2])

KwSelbstmord ==
    <<"s", "e", "l", "b", "s", "t", "m", "o", "r", "d">>

KwSuizid ==
    <<"s", "u", "i", "z", "i", "d">>

KwNotfall ==
    <<"n", "o", "t", "f", "a", "l", "l">>

KwIchHalte ==
    <<"i", "c", "h", " ", "h", "a", "l", "t", "e", " ", "e", "s", " ", "n", "i", "c", "h", "t", " ", "m", "e", "h", "r", " ", "a", "u", "s">>

KwIchWill ==
    <<"i", "c", "h", " ", "w", "i", "l", "l", " ", "n", "i", "c", "h", "t", " ", "m", "e", "h", "r", " ", "l", "e", "b", "e", "n">>

KwSuicide ==
    <<"s", "u", "i", "c", "i", "d", "e">>

CRISIS_KEYWORDS ==
    {KwSelbstmord, KwSuizid, KwNotfall, KwIchHalte, KwIchWill, KwSuicide}

\* BeichtBot._check_pii
check_pii(text) == EMAIL_PATTERN(text) \/ PHONE_PATTERN(text)

\* BeichtBot._check_crisis
check_crisis(text) == \E keyword \in CRISIS_KEYWORDS : Occurs(keyword, Lower(text))

\* a faulty _spoiler_content: it wraps a text that is wrapped already
spoiler_content_rewrapping(content) ==
    LET c == Strip(content)
    IN  IF c = <<>> THEN c
        ELSE <<"|", "|">> \o c \o <<"|", "|">>

\* BeichtBot._spoiler_content
spoiler_content(content) ==
    LET c == Strip(content)
    IN  IF c = <<>> THEN c
        ELSE IF StartsWith(c, <<"|", "|">>) /\ EndsWith(c, <<"|", "|">>) THEN c
        ELSE <<"|", "|">> \o c \o <<"|", "|">>


(***************************************************************************)
(* config.py: GuildConfig and ConfigStore.  The store is the dictionary    *)
(* ConfigStore._data; its "guilds" entry maps str(guild_id) to the         *)
(* dictionary to_dict produced.  str() is one-to-one on integers, so the   *)
(* keys are written as the guild ids themselves.                           *)
(***************************************************************************)
None == <<>>

Some(v) == <<v>>

CONFIG_VERSION == 1

DEFAULT_COOLDOWN_SECONDS == 120

\* the code points of the characters in use, in increasing order
CodePoints ==
    <<NL, " ", "%", "(", ")", "*", "+", ",", "-", ".">> \o DigitChars \o
    <<":", "@">> \o UpperAlphabet \o <<"_">> \o LowerAlphabet \o <<"|", ZWSP>>

Ord(c) == CHOOSE i \in DOMAIN CodePoints : CodePoints[i] = c

\* Python's < on strings
RECURSIVE StrLess(_, _)
StrLess(a, b) ==
    IF b = <<>> THEN FALSE
    ELSE IF a = <<>> THEN TRUE
    ELSE IF Head(a) = Head(b) THEN StrLess(Tail(a), Tail(b))
    ELSE Ord(Head(a)) < Ord(Head(b))

\* sorted(S) for a set of strings
RECURSIVE sorted(_)
sorted(S) ==
    IF S = {} THEN <<>>
    ELSE LET least == CHOOSE x \in S : \A y \in S \ {x} : StrLess(x, y)
         IN  <<least>> \o sorted(S \ {least})

\* _default_data()
default_data == [version |-> CONFIG_VERSION, guilds |-> <<>>, hash_secret |-> None]

\* GuildConfig(guild_id=g): the dataclass defaults
GuildConfig(g) ==
    [guild_id |-> g,
     target_channel_id |-> None,
     mod_channel_id |-> None,
     allowed_target_channels |-> {},
     cooldown_seconds |-> DEFAULT_COOLDOWN_SECONDS,
     auto_delete_minutes |-> None,
     allow_ai_moderation |-> FALSE,
     default_thread_lock |-> TRUE,
     banner_text |-> None,
     blacklist |-> {},
     whitelist |-> {},
     stats |-> [confessions |-> 0, responses |-> 0, reports |-> 0, ai_flags |-> 0],
     hashed_posts |-> <<>>,
     pii_flags |-> <<>>,
     crisis_flags |-> <<>>]

\* GuildConfig.to_dict: the word lists become sorted lists.  The list made of
\* allowed_target_channels is only ever turned back into a set, so it is
\* kept as the set of its elements.
to_dict(cfg) ==
    [cfg EXCEPT !.blacklist = sorted(cfg.blacklist),
                !.whitelist = sorted(cfg.whitelist)]

\* GuildConfig.from_dict: the word lists become sets again
from_dict(raw) ==
    [raw EXCEPT !.blacklist = Range(raw.blacklist),
                !.whitelist = Range(raw.whitelist)]

\* ConfigStore.set_guild_config: the store after the call
set_guild_config(d, cfg) ==
    [d EXCEPT !.guilds =
        [k \in DOMAIN d.guilds \cup {cfg.guild_id} |->
            IF k = cfg.guild_id THEN to_dict(cfg) ELSE d.guilds[k]]]

\* ConfigStore.get_guild_config: the config returned and the store after the
\* call (an absent guild is created with the defaults and saved)
get_guild_config(d, g) ==
    IF g \in DOMAIN d.guilds
    THEN [cfg |-> from_dict(d.guilds[g]), data |-> d]
    ELSE [cfg |-> GuildConfig(g), data |-> set_guild_config(d, GuildConfig(g))]

\* dict.get(key, default) on a dictionary d
DictGet(d, key, default) == IF key \in DOMAIN d THEN d[key] ELSE default

\* d[key] = value on a dictionary d
DictPut(d, key, value) ==
    [k \in DOMAIN d \cup {key} |-> IF k = key THEN value ELSE d[k]]

\* a faulty increment_stat: it writes 1 over the count it found, as an
\* increment computed from a stale copy of the guild would
increment_stat_lost(d, g, key) ==
    LET got == get_guild_config(d, g)
        cfg == [got.cfg EXCEPT !.stats = DictPut(@, key, 1)]
    IN  set_guild_config(got.data, cfg)

\* ConfigStore.increment_stat with amount = 1
increment_stat(d, g, key) ==
    LET got == get_guild_config(d, g)
        cfg == [got.cfg EXCEPT !.stats = DictPut(@, key, DictGet(@, key, 0) + 1)]
    IN  set_guild_config(got.data, cfg)

\* ConfigStore.record_hash
record_hash(d, g, message_id, hash_id) ==
    LET got == get_guild_config(d, g)
        cfg == [got.cfg EXCEPT !.hashed_posts = DictPut(@, message_id, hash_id)]
    IN  set_guild_config(got.data, cfg)

\* ConfigStore.get_hash: the hash, or None, and the store after the call
get_hash(d, g, message_id) ==
    LET got == get_guild_config(d, g)
    IN  [hash |-> IF message_id \in DOMAIN got.cfg.hashed_posts
                  THEN Some(got.cfg.hashed_posts[message_id]) ELSE None,
         data |-> got.data]

\* a faulty record_flag: it counts an AI flag for a PII finding too
record_flag_counting_pii(d, g, message_id, crisis, pii) ==
    LET got == get_guild_config(d, g)
        c1  == IF crisis
               THEN [got.cfg EXCEPT !.crisis_flags = Append(@, message_id)]
               ELSE got.cfg
        c2  == IF pii THEN [c1 EXCEPT !.pii_flags = Append(@, message_id)] ELSE c1
        c3  == IF crisis \/ pii
               THEN [c2 EXCEPT !.stats = DictPut(@, "ai_flags", DictGet(@, "ai_flags", 0) + 1)]
               ELSE c2
    IN  set_guild_config(got.data, c3)

\* a faulty record_flag: it lists a crisis finding without counting it
record_flag_uncounted(d, g, message_id, crisis, pii) ==
    LET got == get_guild_config(d, g)
        c1  == IF crisis
               THEN [got.cfg EXCEPT !.crisis_flags = Append(@, message_id)]
               ELSE got.cfg
        c2  == IF pii THEN [c1 EXCEPT !.pii_flags = Append(@, message_id)] ELSE c1
    IN  set_guild_config(got.data, c2)

\* ConfigStore.record_flag
record_flag(d, g, message_id, crisis, pii) ==
    LET got == get_guild_config(d, g)
        c1  == IF crisis
               THEN [got.cfg EXCEPT
                        !.crisis_flags = Append(@, message_id),
                        !.stats = DictPut(@, "ai_flags", DictGet(@, "ai_flags", 0) + 1)]
               ELSE got.cfg
        c2  == IF pii THEN [c1 EXCEPT !.pii_flags = Append(@, message_id)] ELSE c1
    IN  set_guild_config(got.data, c2)

\* a faulty set_banner: it writes the banner into a new GuildConfig instead
\* of the stored one, which loses what the guild had recorded
set_banner_from_defaults(d, g, text) ==
    LET got == get_guild_config(d, g)
        cfg == [GuildConfig(g) EXCEPT !.banner_text = text]
    IN  set_guild_config(got.data, cfg)

\* ConfigStore.set_banner; text is <<string>> or None
set_banner(d, g, text) ==
    LET got == get_guild_config(d, g)
        cfg == [got.cfg EXCEPT !.banner_text = text]
    IN  set_guild_config(got.data, cfg)

\* ConfigStore.set_lists; an argument that is None leaves its list alone,
\* a given list is <<items>> with items a sequence of strings
set_lists(d, g, blacklist, whitelist) ==
    LET got == get_guild_config(d, g)
        c1  == IF blacklist # None
               THEN [got.cfg EXCEPT !.blacklist = {Lower(w) : w \in Range(blacklist[1])}]
               ELSE got.cfg
        c2  == IF whitelist # None
               THEN [c1 EXCEPT !.whitelist = {Lower(w) : w \in Range(whitelist[1])}]
               ELSE c1
    IN  [cfg |-> c2, data |-> set_guild_config(got.data, c2)]

\* ConfigStore.update_allowed_channels; channels is a sequence of ids
update_allowed_channels(d, g, channels) ==
    LET got == get_guild_config(d, g)
        cfg == [got.cfg EXCEPT !.allowed_target_channels = Range(channels)]
    IN  [cfg |-> cfg, data |-> set_guild_config(got.data, cfg)]

\* a faulty reset_guild: the entry is set back to its defaults but for the
\* counters
reset_guild_keeping_stats(d, g) ==
    IF g \in DOMAIN d.guilds
    THEN [d EXCEPT !.guilds[g] =
            to_dict([GuildConfig(g) EXCEPT !.stats = from_dict(d.guilds[g]).stats])]
    ELSE d

\* a faulty reset_guild: it empties the dictionary of the guilds
reset_guild_dropping_all(d, g) ==
    IF g \in DOMAIN d.guilds
    THEN [d EXCEPT !.guilds = <<>>]
    ELSE d

\* ConfigStore.reset_guild
reset_guild(d, g) ==
    IF g \in DOMAIN d.guilds
    THEN [d EXCEPT !.guilds = [k \in DOMAIN d.guilds \ {g} |-> d.guilds[k]]]
    ELSE d

\* ConfigStore.secret: the secret returned and the store after the call;
\* fresh is what secrets.token_hex(32) draws when no secret is stored
secret(d, fresh) ==
    IF d.hash_secret = None
    THEN [secret |-> fresh, data |-> [d EXCEPT !.hash_secret = Some(fresh)]]
    ELSE [secret |-> d.hash_secret[1], data |-> d]


(***************************************************************************)
(* bot.py: the helpers of BeichtBot                                        *)
(***************************************************************************)
\* str(n) for an integer n
RECURSIVE StrNat(_)
StrNat(n) ==
    IF n < 10 THEN <<DigitChars[n + 1]>>
    ELSE StrNat(n \div 10) \o <<DigitChars[(n % 10) + 1]>>

Str(n) == IF n < 0 THEN <<"-">> \o StrNat(0 - n) ELSE StrNat(n)

\* the value of a string of decimal digits
RECURSIVE DigitsValue(_)
DigitsValue(s) ==
    IF s = <<>> THEN 0
    ELSE 10 * DigitsValue(SubSeq(s, 1, Len(s) - 1))
         + ((CHOOSE i \in DOMAIN DigitChars : DigitChars[i] = s[Len(s)]) - 1)

\* int(s): <<n>>, or None where Python raises ValueError.  White space around
\* the number and one sign are accepted, as Python accepts them.
ParseInt(s) ==
    LET t      == Strip(s)
        signed == t # <<>> /\ Head(t) \in {"+", "-"}
        digits == IF signed THEN Tail(t) ELSE t
    IN  IF digits = <<>> \/ \E k \in DOMAIN digits : ~IsDigit(digits[k])
        THEN None
        ELSE IF signed /\ Head(t) = "-"
             THEN Some(0 - DigitsValue(digits))
             ELSE Some(DigitsValue(digits))

\* a faulty _create_hash: the ids are concatenated without the colon
create_hash_unseparated(key, user_id, message_id) ==
    <<"hmac-sha256", key, Str(user_id) \o Str(message_id)>>

\* BeichtBot._create_hash: HMAC-SHA256 keyed with the store's secret over
\* f"{user_id}:{message_id}".  The digest is kept as the pair of key and
\* message it was computed from: equal digests come from equal pairs.
create_hash(key, user_id, message_id) ==
    <<"hmac-sha256", key, Str(user_id) \o <<":">> \o Str(message_id)>>

\* One pass of the loop of _check_word_lists over the blacklist in the
\* iteration order `order`; the message naming the first term found, or None
RECURSIVE FirstBlocked(_, _)
FirstBlocked(order, lowered) ==
    IF order = <<>> THEN None
    ELSE IF Head(order) # <<>> /\ Occurs(Head(order), lowered)
         THEN Some([msg |-> "blocked", term |-> Head(order)])
         ELSE FirstBlocked(Tail(order), lowered)

\* the orders in which a set can be iterated
Orders(S) ==
    {f \in [1..Cardinality(S) -> S] : \A i, j \in DOMAIN f : f[i] = f[j] => i = j}

\* a faulty _check_word_lists: it looks for the terms in the text as typed
check_word_lists_cased(order, whitelist, text) ==
    LET blocked == FirstBlocked(order, text)
    IN  IF blocked # None THEN blocked
        ELSE IF whitelist # {} /\ ~(\E word \in whitelist : Occurs(word, text))
             THEN Some([msg |-> "whitelist"])
             ELSE None

\* a faulty _check_word_lists: it consults the whitelist first
check_word_lists_whitelist_first(order, whitelist, text) ==
    LET lowered == Lower(text)
    IN  IF whitelist # {} /\ ~(\E word \in whitelist : Occurs(word, lowered))
        THEN Some([msg |-> "whitelist"])
        ELSE FirstBlocked(order, lowered)

\* BeichtBot._check_word_lists in the iteration order `order` of the blacklist
check_word_lists_in(order, whitelist, text) ==
    LET lowered == Lower(text)
        blocked == FirstBlocked(order, lowered)
    IN  IF blocked # None THEN blocked
        ELSE IF whitelist # {} /\ ~(\E word \in whitelist : Occurs(word, lowered))
             THEN Some([msg |-> "whitelist"])
             ELSE None

\* BeichtBot._check_word_lists: the results it can give.  config.blacklist is
\* a set of strings and Python fixes no iteration order for it.
check_word_lists(config, text) ==
    {check_word_lists_in(order, config.whitelist, text) : order \in Orders(config.blacklist)}

\* a faulty _is_on_cooldown: the author is still rejected at the expiry
is_on_cooldown_inclusive(ledger, guild_id, user_id, cooldown, t) ==
    LET key    == <<guild_id, user_id>>
        expiry == DictGet(ledger, key, 0)
    IN  IF t <= expiry /\ key \in DOMAIN ledger
        THEN [on_cooldown |-> TRUE, cooldowns |-> ledger]
        ELSE [on_cooldown |-> FALSE, cooldowns |-> DictPut(ledger, key, t + cooldown)]

\* a faulty _is_on_cooldown: a rejected retry starts the window anew
is_on_cooldown_extending(ledger, guild_id, user_id, cooldown, t) ==
    LET key    == <<guild_id, user_id>>
        expiry == DictGet(ledger, key, 0)
    IN  IF t < expiry
        THEN [on_cooldown |-> TRUE, cooldowns |-> DictPut(ledger, key, t + cooldown)]
        ELSE [on_cooldown |-> FALSE, cooldowns |-> DictPut(ledger, key, t + cooldown)]

\* BeichtBot._is_on_cooldown at monotonic time t: the result and the ledger
\* after the call.  Both reads of now_ts() are taken at t.
is_on_cooldown(ledger, guild_id, user_id, cooldown, t) ==
    LET key    == <<guild_id, user_id>>
        expiry == DictGet(ledger, key, 0)
    IN  IF t < expiry
        THEN [on_cooldown |-> TRUE, cooldowns |-> ledger]
        ELSE [on_cooldown |-> FALSE, cooldowns |-> DictPut(ledger, key, t + cooldown)]


\* MENTION_PATTERN.search(s): @(?:everyone|here|&|!|#)
MENTION_PATTERN(s) ==
    \E i \in 1..Len(s) :
        /\ s[i] = "@"
        /\ \E w \in {<<"e", "v", "e", "r", "y", "o", "n", "e">>, <<"h", "e", "r", "e">>,
                     <<"&">>, <<"!">>, <<"#">>} :
              i + Len(w) <= Len(s) /\ SubSeq(s, i + 1, i + Len(w)) = w

\* URL_PATTERN.search(s): https?://
URL_PATTERN(s) ==
    Occurs(<<"h", "t", "t", "p", ":", "/", "/">>, s)
    \/ Occurs(<<"h", "t", "t", "p", "s", ":", "/", "/">>, s)

\* s.split(",")
RECURSIVE SplitComma(_)
SplitComma(s) ==
    IF \A k \in DOMAIN s : s[k] # ","
    THEN <<s>>
    ELSE LET k == CHOOSE k \in DOMAIN s : s[k] = "," /\ \A j \in 1..(k - 1) : s[j] # ","
         IN  <<SubSeq(s, 1, k - 1)>> \o SplitComma(SubSeq(s, k + 1, Len(s)))

\* [w.strip() for w in parts if w.strip()]
RECURSIVE StripNonEmpty(_)
StripNonEmpty(parts) ==
    IF parts = <<>> THEN <<>>
    ELSE IF Strip(Head(parts)) # <<>>
         THEN <<Strip(Head(parts))>> \o StripNonEmpty(Tail(parts))
         ELSE StripNonEmpty(Tail(parts))

\* sep.join(parts)
RECURSIVE Join(_, _)
Join(sep, parts) ==
    IF parts = <<>> THEN <<>>
    ELSE IF Len(parts) = 1 THEN Head(parts)
    ELSE Head(parts) \o sep \o Join(sep, Tail(parts))

\* handle_confession_submission: the content handed to target.send
confession_content(text, trigger_value) ==
    LET confession    == neutralize_mentions(text)
        trigger_words == IF trigger_value # <<>>
                         THEN StripNonEmpty(SplitComma(trigger_value)) ELSE <<>>
        tw_part       == IF trigger_words # <<>>
                         THEN << <<"*", "*", "T", "W", ":", "*", "*", " ">>
                                 \o Join(<<",", " ">>, trigger_words) >>
                         ELSE <<>>
    IN  Join(<<NL, NL>>, tw_part \o <<spoiler_content(confession)>>)

\* handle_confession_submission: the advisories, all computed on the
\* neutralised confession text
confession_pii(text) == check_pii(neutralize_mentions(text))

confession_crisis(text) == check_crisis(neutralize_mentions(text))

confession_hints(text) ==
    LET confession == neutralize_mentions(text)
    IN  (IF MENTION_PATTERN(confession) THEN {"mentions"} ELSE {})
        \cup (IF URL_PATTERN(confession) THEN {"links"} ELSE {})
        \cup (IF confession_pii(text) THEN {"pii"} ELSE {})
        \cup (IF confession_crisis(text) THEN {"crisis"} ELSE {})


(***************************************************************************)
(* Bounds and inputs                                                       *)
(***************************************************************************)
MaxTime == 2

MaxMessages == 2

Guilds == {1}

Users == {1, 2}

\* what secrets.token_hex(32) can draw
Secrets == {"k1", "k2"}

\* The channels of the platform: guild.get_channel(id) is a TextChannel for
\* the ids of TextChannelsOf, another kind of channel for those of
\* VoiceChannelsOf and None for every other id.
TextChannelsOf(g) == {10 * g, 10 * g + 1}

VoiceChannelsOf(g) == {10 * g + 2}

TextScenarioA ==
    <<"h", "e", "l", "l", "o", " ", "@", "e", "v", "e", "r", "y", "o", "n", "e", " ", "t", "e", "s", "t", "@", "e", "x", "a", "m", "p", "l", "e", ".", "c", "o", "m">>

TextScenarioB ==
    <<"t", "h", "i", "s", " ", "i", "s", " ", "s", "p", "a", "m", " ", "c", "o", "n", "t", "e", "n", "t">>

TextShout ==
    <<"H", "e", "l", "l", "o", " ", "S", "P", "A", "M">>

TextPhone ==
    <<"5", "5", "5", "-", "1", "2", "3", "4">>

TextCrisis ==
    <<"S", "u", "i", "z", "i", "d">>

\* the texts typed into the modals
Texts == {TextScenarioA, TextScenarioB, TextShout, TextPhone, TextCrisis}

\* the texts of the runs that look at what is recorded
AdvisoryTexts == {TextScenarioA, TextPhone, TextCrisis}

\* the texts of the runs that look at the word lists
ScreenedTexts == {TextScenarioA, TextScenarioB, TextShout}

BlacklistRaw ==
    <<"S", "p", "a", "m", ",", " ", "i", "s">>

WhitelistRaw ==
    <<"H", "e", "l", "l", "o">>

\* the values of the options blacklist and whitelist of /beichtbot-wörter
BlacklistInputs == {None, Some(BlacklistRaw)}

WhitelistInputs == {None, Some(WhitelistRaw)}

\* the message ids typed into /beichtantwort: a message id, no number
NachrichtInputs == {<<"1">>, <<"x">>}

\* the users who reply and report, and do not confess, where every operation
\* is looked at
Responders == {1}

\* the trigger words typed into the confession modal
TriggerRaw ==
    <<"@", "h", "e", "r", "e", ",", " ", "l", "o", "s", "s">>

TriggerInputs == {<<>>, TriggerRaw}

\* the channel ids typed into the confession modal: none, the second text
\* channel of guild 1, its voice channel, no number
TargetInputs == {<<>>, <<"1", "1">>, <<"1", "2">>, <<"x">>}

\* the values of the option ids of /beichtbot-kanäle: none given, the first
\* text channel of guild 1, the second one
KanaeleInputs == {None, Some(<<"1", "0">>), Some(<<"1", "1">>)}

\* the most reports the model lets the moderators receive per guild
MaxReports == 2

\* the longest text handed to _spoiler_content on its own
MaxSpoilerLen == 5

\* the texts over the marker character, white space and a letter, up to
\* that length
SpoilerTexts ==
    UNION {[1..n -> {"|", " ", "a"}] : n \in 0..MaxSpoilerLen}

\* the largest author id and message id handed to _create_hash on its own
MaxAuthorId == 12

MaxMessageId == 23

\* arguments of /beichtbot-setup
SetupArgs(ziel, mod, cooldown, auto_delete, ai_moderation, thread_lock) ==
    [ziel_channel |-> ziel, mod_channel |-> mod, cooldown |-> cooldown,
     auto_delete |-> auto_delete, ai_moderation |-> ai_moderation,
     thread_lock |-> thread_lock]

\* only the target channel
SetupTarget(g) == SetupArgs(10 * g, None, None, None, None, None)

\* the target channel and no cooldown (a negative cooldown is raised to 0)
SetupNoCooldown(g) == SetupArgs(10 * g, None, Some(-1), None, None, None)

\* the target channel and a short cooldown
SetupShortCooldown(g) == SetupArgs(10 * g, None, Some(2), None, None, None)

\* every argument given
SetupAll(g) ==
    SetupArgs(10 * g, Some(10 * g + 1), Some(0), Some(0), Some(TRUE), Some(FALSE))

(***************************************************************************)
(* State                                                                   *)
(***************************************************************************)
VARIABLES
    data,       \* ConfigStore._data
    cooldowns,  \* BeichtBot.cooldowns: (guild id, user id) -> expiry
    clock,      \* time.monotonic(), in seconds
    sess,       \* per user, the interaction in flight and its live local variables
    posted,     \* the messages the platform delivered; a message's id is its index
    request,    \* the interaction the last step received: its user and the
                \* text of its modal (empty for a command), or None
    response,   \* what the last step answered to the author of a confession
                \* or reply through interaction.response, or None
    disk,       \* the files of the store: ConfigStore.path and its .tmp sibling
    proc        \* the process: where it stands in ConfigStore._save (pc), what
                \* the running operation of the store still has to write (todo)
                \* and to return (ret); or down

vars == <<data, cooldowns, clock, sess, posted, request, response, disk, proc>>

\* a file holding the JSON document doc, written out as a whole or only in part
FileOf(doc, whole) == Some([doc |-> doc, whole |-> whole])

\* the files after ConfigStore._save has written doc and returned
Stored(doc) == [path |-> FileOf(doc, TRUE), tmp |-> None]

\* the process between two operations of the store
Ready == [pc |-> "ready", todo |-> None, ret |-> None]

Idle ==
    [pc |-> "idle", guild |-> 0, text |-> <<>>, trigger_words |-> <<>>,
     target |-> None, mod_channel_id |-> None, message_id |-> 0, reply_to |-> 0]

Init ==
    /\ data = default_data
    /\ cooldowns = <<>>
    /\ clock = 0
    /\ sess = [u \in Users |-> Idle]
    /\ posted = <<>>
    /\ request = None
    /\ response = None
    /\ disk = [path |-> None, tmp |-> None]
    /\ proc = Ready

\* ConfigStore._save inside a step of the bot that runs to its end: every
\* call that changes _data (set_guild_config, reset_guild of a present
\* guild, the first secret) writes the document before it returns, and the
\* calls that change nothing either write nothing or write what is stored
SavedAtOnce ==
    /\ disk' = IF data' # data THEN Stored(data') ELSE disk
    /\ proc' = proc

\* a faulty _resolve_target_channel: it does not look at the allowed channels
resolve_target_channel_unrestricted(g, config, channel_id) ==
    LET cid == IF channel_id = None THEN config.target_channel_id ELSE channel_id
    IN  IF cid = None THEN None
        ELSE IF cid[1] \notin TextChannelsOf(g) THEN None
        ELSE cid

\* BeichtBot._resolve_target_channel: the channel id, or None
resolve_target_channel(g, config, channel_id) ==
    LET cid == IF channel_id = None THEN config.target_channel_id ELSE channel_id
    IN  IF cid = None THEN None
        ELSE IF cid[1] \notin TextChannelsOf(g) THEN None
        ELSE IF config.allowed_target_channels # {}
                /\ cid[1] \notin config.allowed_target_channels THEN None
        ELSE cid

\* time passes
Tick ==
    /\ clock < MaxTime
    /\ clock' = clock + 1
    /\ UNCHANGED <<data, cooldowns, sess, posted, request, response>>
    /\ SavedAtOnce

(***************************************************************************)
(* /beichten and the confession modal                                      *)
(***************************************************************************)
\* BeichtBot.beichten: user u runs /beichten in guild g
Beichten(u, g) ==
    /\ sess[u].pc = "idle"
    /\ LET got      == get_guild_config(data, g)
           cooldown == got.cfg.cooldown_seconds
           limit    == IF cooldown > 0
                       THEN is_on_cooldown(cooldowns, g, u, cooldown, clock)
                       ELSE [on_cooldown |-> FALSE, cooldowns |-> cooldowns]
       IN  /\ data' = got.data
           /\ cooldowns' = limit.cooldowns
           /\ IF limit.on_cooldown
              THEN /\ response' = Some([msg |-> "wait"])
                   /\ sess' = sess
              ELSE /\ response' = Some([msg |-> "confession_modal"])
                   /\ sess' = [sess EXCEPT ![u] = [Idle EXCEPT !.pc = "modal", !.guild = g]]
    /\ request' = Some([user |-> u, text |-> <<>>])
    /\ UNCHANGED <<clock, posted>>
    /\ SavedAtOnce

\* The local variables of handle_confession_submission that are computed from
\* the fields of the modal before target.send is awaited and read after it;
\* the values are those of the operators above, computed once per text.
Advisory ==
    [t \in Texts |-> [pii |-> confession_pii(t), crisis |-> confession_crisis(t),
                      hints |-> confession_hints(t)]]

pii_detected(u) == Advisory[sess[u].text].pii

crisis_detected(u) == Advisory[sess[u].text].crisis

\* the content handed to target.send by the confession of user u
content_of(u) == confession_content(sess[u].text, sess[u].trigger_words)

\* the content handed to thread.send by the reply of user u
reply_content_of(u) == spoiler_content(neutralize_mentions(sess[u].text))

\* BeichtBot.handle_confession_submission up to `await target.send(...)`:
\* the modal of user u is submitted with these field values.  The fields
\* allow_replies and lock_thread only steer the thread of the platform.
ConfessionSubmit(u, text, trigger_value, target_value) ==
    /\ sess[u].pc = "modal"
    /\ LET g   == sess[u].guild
           got == get_guild_config(data, g)
           config == got.cfg
           channel_id == IF target_value # <<>> THEN ParseInt(target_value) ELSE None
           target == resolve_target_channel(g, config, channel_id)
       IN  /\ data' = got.data
           /\ \E word_issue \in check_word_lists(config, text) :
                IF word_issue # None
                THEN /\ response' = word_issue
                     /\ sess' = [sess EXCEPT ![u] = Idle]
                ELSE IF target_value # <<>> /\ ParseInt(target_value) = None
                THEN /\ response' = Some([msg |-> "bad_channel_id"])
                     /\ sess' = [sess EXCEPT ![u] = Idle]
                ELSE IF target = None
                THEN /\ response' = Some([msg |-> "no_target"])
                     /\ sess' = [sess EXCEPT ![u] = Idle]
                ELSE /\ response' = None
                     /\ sess' = [sess EXCEPT ![u] =
                            [pc |-> "sending", guild |-> g, text |-> text,
                             trigger_words |-> trigger_value,
                             target |-> target,
                             mod_channel_id |-> config.mod_channel_id,
                             message_id |-> 0, reply_to |-> 0]]
    /\ request' = Some([user |-> u, text |-> text])
    /\ UNCHANGED <<cooldowns, clock, posted>>
    /\ SavedAtOnce

\* a faulty recording: the hash is filed under the author's id, not under
\* the id of the message
ConfessionDelivered_naming_author(u, fresh) ==
    /\ sess[u].pc = "sending"
    /\ Len(posted) < MaxMessages
    /\ LET g  == sess[u].guild
           m  == Len(posted) + 1
           d1 == increment_stat(data, g, "confessions")
           s  == secret(d1, fresh)
           d2 == record_hash(s.data, g, u, create_hash(s.secret, u, m))
           d3 == record_flag(d2, g, m, crisis_detected(u), pii_detected(u))
       IN  /\ data' = d3
           /\ posted' = Append(posted, [kind |-> "confession", guild |-> g,
                                        channel |-> sess[u].target[1]])
           /\ sess' = [sess EXCEPT ![u].pc = "threading", ![u].message_id = m]
    /\ response' = None
    /\ request' = None
    /\ UNCHANGED <<cooldowns, clock>>
    /\ SavedAtOnce

\* handle_confession_submission after target.send returned the message:
\* increment_stat, _create_hash, record_hash, record_flag, then
\* `await message.create_thread(...)`.  fresh is what secrets.token_hex draws
\* if the store has no secret yet.
ConfessionDelivered(u, fresh) ==
    /\ sess[u].pc = "sending"
    /\ Len(posted) < MaxMessages
    /\ LET g  == sess[u].guild
           m  == Len(posted) + 1
           d1 == increment_stat(data, g, "confessions")
           s  == secret(d1, fresh)
           d2 == record_hash(s.data, g, m, create_hash(s.secret, u, m))
           d3 == record_flag(d2, g, m, crisis_detected(u), pii_detected(u))
       IN  /\ data' = d3
           /\ posted' = Append(posted, [kind |-> "confession", guild |-> g,
                                        channel |-> sess[u].target[1]])
           /\ sess' = [sess EXCEPT ![u].pc = "threading", ![u].message_id = m]
    /\ response' = None
    /\ request' = None
    /\ UNCHANGED <<cooldowns, clock>>
    /\ SavedAtOnce

\* a faulty failure path: the confession is counted although target.send raised
ConfessionDeliveryFailed_counting(u) ==
    /\ sess[u].pc = "sending"
    /\ response' = Some([msg |-> "send_failed"])
    /\ sess' = [sess EXCEPT ![u] = Idle]
    /\ request' = None
    /\ data' = increment_stat(data, sess[u].guild, "confessions")
    /\ UNCHANGED <<cooldowns, clock, posted>>
    /\ SavedAtOnce

\* handle_confession_submission when target.send raised HTTPException
ConfessionDeliveryFailed(u) ==
    /\ sess[u].pc = "sending"
    /\ response' = Some([msg |-> "send_failed"])
    /\ sess' = [sess EXCEPT ![u] = Idle]
    /\ request' = None
    /\ UNCHANGED <<data, cooldowns, clock, posted>>
    /\ SavedAtOnce

\* the acknowledgement that ends handle_confession_submission
Acknowledgement(u) == Some([msg |-> "published", hints |-> Advisory[sess[u].text].hints])

\* handle_confession_submission after create_thread (and thread.edit)
\* returned or raised: _schedule_autodelete, then _notify_mods, which awaits
\* channel.send only for a flagged text and a configured text channel
ConfessionThreaded(u) ==
    /\ sess[u].pc = "threading"
    /\ IF /\ (crisis_detected(u) \/ pii_detected(u))
          /\ sess[u].mod_channel_id # None
          /\ sess[u].mod_channel_id[1] \in TextChannelsOf(sess[u].guild)
       THEN /\ sess' = [sess EXCEPT ![u].pc = "notifying"]
            /\ response' = None
       ELSE /\ sess' = [sess EXCEPT ![u] = Idle]
            /\ response' = Acknowledgement(u)
    /\ request' = None
    /\ UNCHANGED <<data, cooldowns, clock, posted>>
    /\ SavedAtOnce

\* handle_confession_submission after the moderators' channel.send returned
\* or raised
ConfessionNotified(u) ==
    /\ sess[u].pc = "notifying"
    /\ sess' = [sess EXCEPT ![u] = Idle]
    /\ response' = Acknowledgement(u)
    /\ request' = None
    /\ UNCHANGED <<data, cooldowns, clock, posted>>
    /\ SavedAtOnce


(***************************************************************************)
(* /beichtantwort and the reply modal                                      *)
(***************************************************************************)
\* the id of the thread the platform opens on message m
ThreadOf(m) == 100 + m

\* BeichtBot.beichtantwort: user u runs /beichtantwort in guild g
Beichtantwort(u, g, nachricht_id) ==
    /\ sess[u].pc = "idle"
    /\ IF ParseInt(nachricht_id) = None
       THEN /\ response' = Some([msg |-> "bad_message_id"])
            /\ sess' = sess
       ELSE /\ response' = Some([msg |-> "reply_modal"])
            /\ sess' = [sess EXCEPT ![u] =
                   [Idle EXCEPT !.pc = "reply_modal", !.guild = g,
                                !.reply_to = ParseInt(nachricht_id)[1]]]
    /\ request' = Some([user |-> u, text |-> <<>>])
    /\ UNCHANGED <<data, cooldowns, clock, posted>>
    /\ SavedAtOnce

\* BeichtBot.handle_reply_submission up to `await target.fetch_message(...)`
ReplySubmit(u, reply) ==
    /\ sess[u].pc = "reply_modal"
    /\ LET g      == sess[u].guild
           got    == get_guild_config(data, g)
           target == resolve_target_channel(g, got.cfg, None)
       IN  /\ data' = got.data
           /\ IF target = None
              THEN /\ response' = Some([msg |-> "no_target"])
                   /\ sess' = [sess EXCEPT ![u] = Idle]
              ELSE /\ response' = None
                   /\ sess' = [sess EXCEPT ![u].pc = "reply_fetching",
                                           ![u].text = reply,
                                           ![u].target = target]
    /\ request' = Some([user |-> u, text |-> reply])
    /\ UNCHANGED <<cooldowns, clock, posted>>
    /\ SavedAtOnce

\* handle_reply_submission after fetch_message returned the message and its
\* thread exists or was created (create_thread and thread.edit are awaited in
\* between and touch only the platform), up to `await thread.send(...)`
ReplyFetched(u) ==
    /\ sess[u].pc = "reply_fetching"
    /\ sess[u].reply_to \in DOMAIN posted
    /\ posted[sess[u].reply_to].guild = sess[u].guild
    /\ posted[sess[u].reply_to].channel = sess[u].target[1]
    /\ sess' = [sess EXCEPT ![u].pc = "reply_sending"]
    /\ response' = None
    /\ request' = None
    /\ UNCHANGED <<data, cooldowns, clock, posted>>
    /\ SavedAtOnce

\* handle_reply_submission when fetch_message raised NotFound or
\* HTTPException, or create_thread raised HTTPException
ReplyFetchFailed(u) ==
    /\ sess[u].pc = "reply_fetching"
    /\ sess' = [sess EXCEPT ![u] = Idle]
    /\ response' = Some([msg |-> "reply_not_possible"])
    /\ request' = None
    /\ UNCHANGED <<data, cooldowns, clock, posted>>
    /\ SavedAtOnce

\* the end of handle_reply_submission: increment_stat and the acknowledgement
ReplyRecord(u) ==
    /\ data' = increment_stat(data, sess[u].guild, "responses")
    /\ response' = Some([msg |-> "reply_published"])
    /\ sess' = [sess EXCEPT ![u] = Idle]

\* handle_reply_submission after thread.send returned; relock is whether the
\* thread is locked again (`thread.locked and should_unlock`), which awaits
\* thread.edit before anything is recorded
ReplyDelivered(u, relock) ==
    /\ sess[u].pc = "reply_sending"
    /\ Len(posted) < MaxMessages
    /\ posted' = Append(posted, [kind |-> "reply", guild |-> sess[u].guild,
                                 channel |-> ThreadOf(sess[u].reply_to)])
    /\ IF relock
       THEN /\ sess' = [sess EXCEPT ![u].pc = "reply_relocking",
                                    ![u].message_id = Len(posted) + 1]
            /\ response' = None
            /\ data' = data
       ELSE ReplyRecord(u)
    /\ request' = None
    /\ UNCHANGED <<cooldowns, clock>>
    /\ SavedAtOnce

\* handle_reply_submission after the relocking thread.edit returned or raised
ReplyRelocked(u) ==
    /\ sess[u].pc = "reply_relocking"
    /\ ReplyRecord(u)
    /\ request' = None
    /\ UNCHANGED <<cooldowns, clock, posted>>
    /\ SavedAtOnce

\* handle_reply_submission when thread.send raised HTTPException
ReplyDeliveryFailed(u) ==
    /\ sess[u].pc = "reply_sending"
    /\ sess' = [sess EXCEPT ![u] = Idle]
    /\ response' = Some([msg |-> "reply_send_failed"])
    /\ request' = None
    /\ UNCHANGED <<data, cooldowns, clock, posted>>
    /\ SavedAtOnce

(***************************************************************************)
(* /melden and the report modal                                            *)
(***************************************************************************)
\* BeichtBot.melden: user u runs /melden in guild g
Melden(u, g, nachricht_id) ==
    /\ sess[u].pc = "idle"
    /\ IF ParseInt(nachricht_id) = None
       THEN /\ response' = Some([msg |-> "bad_message_id"])
            /\ sess' = sess
       ELSE /\ response' = Some([msg |-> "report_modal"])
            /\ sess' = [sess EXCEPT ![u] =
                   [Idle EXCEPT !.pc = "report_modal", !.guild = g,
                                !.reply_to = ParseInt(nachricht_id)[1]]]
    /\ request' = Some([user |-> u, text |-> <<>>])
    /\ UNCHANGED <<data, cooldowns, clock, posted>>
    /\ SavedAtOnce

\* BeichtBot.handle_report_submission up to `await channel.send(...)`
ReportSubmit(u, reason) ==
    /\ sess[u].pc = "report_modal"
    /\ LET g   == sess[u].guild
           got == get_guild_config(data, g)
           mod == got.cfg.mod_channel_id
       IN  /\ data' = got.data
           /\ IF mod = None \/ mod = Some(0)
              THEN /\ response' = Some([msg |-> "no_mod_channel"])
                   /\ sess' = [sess EXCEPT ![u] = Idle]
              ELSE IF mod[1] \notin TextChannelsOf(g)
              THEN /\ response' = Some([msg |-> "bad_mod_channel"])
                   /\ sess' = [sess EXCEPT ![u] = Idle]
              ELSE /\ response' = None
                   /\ sess' = [sess EXCEPT ![u].pc = "reporting",
                                           ![u].text = reason,
                                           ![u].mod_channel_id = mod]
    /\ request' = Some([user |-> u, text |-> reason])
    /\ UNCHANGED <<cooldowns, clock, posted>>
    /\ SavedAtOnce

\* handle_report_submission after the moderators' channel.send returned
ReportDelivered(u) ==
    /\ sess[u].pc = "reporting"
    /\ get_guild_config(data, sess[u].guild).cfg.stats.reports < MaxReports
    /\ data' = increment_stat(data, sess[u].guild, "reports")
    /\ response' = Some([msg |-> "report_sent"])
    /\ sess' = [sess EXCEPT ![u] = Idle]
    /\ request' = None
    /\ UNCHANGED <<cooldowns, clock, posted>>
    /\ SavedAtOnce

\* handle_report_submission when channel.send raised HTTPException
ReportFailed(u) ==
    /\ sess[u].pc = "reporting"
    /\ response' = Some([msg |-> "report_failed"])
    /\ sess' = [sess EXCEPT ![u] = Idle]
    /\ request' = None
    /\ UNCHANGED <<data, cooldowns, clock, posted>>
    /\ SavedAtOnce

(***************************************************************************)
(* The administrators' commands; none of them awaits before it returns     *)
(***************************************************************************)
\* max that gives its second argument whatever the first is
Max_unclamped(a, b) == b

Max(a, b) == IF a >= b THEN a ELSE b

\* BeichtBot.beichtbot_setup
Setup(g, args) ==
    /\ LET got == get_guild_config(data, g)
           c1  == [got.cfg EXCEPT
                     !.target_channel_id = Some(args.ziel_channel),
                     !.mod_channel_id =
                        IF args.mod_channel # None THEN args.mod_channel ELSE @,
                     !.cooldown_seconds =
                        IF args.cooldown # None THEN Max(0, args.cooldown[1]) ELSE @,
                     !.auto_delete_minutes =
                        IF args.auto_delete # None
                        THEN Some(Max(1, args.auto_delete[1])) ELSE @,
                     !.allow_ai_moderation =
                        IF args.ai_moderation # None THEN args.ai_moderation[1] ELSE @,
                     !.default_thread_lock =
                        IF args.thread_lock # None THEN args.thread_lock[1] ELSE @]
       IN  data' = set_guild_config(got.data, c1)
    /\ response' = None
    /\ request' = None
    /\ UNCHANGED <<cooldowns, clock, sess, posted>>
    /\ SavedAtOnce

\* BeichtBot.beichtbot_woerter; an option is <<string>> or None
Woerter(g, blacklist, whitelist) ==
    /\ LET blacklist_items == IF blacklist # None /\ blacklist[1] # <<>>
                              THEN Some(StripNonEmpty(SplitComma(blacklist[1])))
                              ELSE None
           whitelist_items == IF whitelist # None /\ whitelist[1] # <<>>
                              THEN Some(StripNonEmpty(SplitComma(whitelist[1])))
                              ELSE None
       IN  data' = set_lists(data, g, blacklist_items, whitelist_items).data
    /\ response' = None
    /\ request' = None
    /\ UNCHANGED <<cooldowns, clock, sess, posted>>
    /\ SavedAtOnce

\* int(part) for the parts of ids.split(",") that are not blank: the ids as
\* a sequence, or None where one part is no number
RECURSIVE ParseIds(_)
ParseIds(parts) ==
    IF parts = <<>> THEN Some(<<>>)
    ELSE LET part == Strip(Head(parts))
             rest == ParseIds(Tail(parts))
         IN  IF part = <<>> THEN rest
             ELSE IF ParseInt(part) = None \/ rest = None THEN None
             ELSE Some(<<ParseInt(part)[1]>> \o rest[1])

\* BeichtBot.beichtbot_kanaele; ids is <<string>> or None
Kanaele(g, ids) ==
    /\ LET channels == IF ids # None /\ ids[1] # <<>>
                       THEN ParseIds(SplitComma(ids[1])) ELSE Some(<<>>)
       IN  data' = IF channels = None THEN data
                   ELSE update_allowed_channels(data, g, channels[1]).data
    /\ response' = None
    /\ request' = None
    /\ UNCHANGED <<cooldowns, clock, sess, posted>>
    /\ SavedAtOnce

\* BeichtBot.beichtbot_banner; text is <<string>> or None
Banner(g, text) ==
    /\ data' = set_banner(data, g, text)
    /\ response' = None
    /\ request' = None
    /\ UNCHANGED <<cooldowns, clock, sess, posted>>
    /\ SavedAtOnce

\* BeichtBot.beichtbot_reset
Reset(g) ==
    /\ data' = reset_guild(data, g)
    /\ response' = None
    /\ request' = None
    /\ UNCHANGED <<cooldowns, clock, sess, posted>>
    /\ SavedAtOnce

\* a faulty beichtbot_cooldown: it matches the entries by the user alone, or
\* by nothing when no user is given
CooldownClear_everywhere(g, user) ==
    /\ cooldowns' =
         IF user # None
         THEN [k \in {k \in DOMAIN cooldowns : k[2] # user[1]} |-> cooldowns[k]]
         ELSE <<>>
    /\ response' = None
    /\ request' = None
    /\ UNCHANGED <<data, clock, sess, posted>>
    /\ SavedAtOnce

\* BeichtBot.beichtbot_cooldown; user is <<u>> or None
CooldownClear(g, user) ==
    /\ cooldowns' =
         IF user # None
         THEN [k \in DOMAIN cooldowns \ {<<g, user[1]>>} |-> cooldowns[k]]
         ELSE [k \in {k \in DOMAIN cooldowns : k[1] # g} |-> cooldowns[k]]
    /\ response' = None
    /\ request' = None
    /\ UNCHANGED <<data, clock, sess, posted>>
    /\ SavedAtOnce

(***************************************************************************)
(* Specifications                                                          *)
(***************************************************************************)
\* The pipeline at one instant of the clock, with empty word lists:
\* confessions and replies of two users, setup and reset.
Next ==
    \/ \E u \in Users, g \in Guilds : Beichten(u, g)
    \/ \E u \in Users, text \in AdvisoryTexts : ConfessionSubmit(u, text, <<>>, <<>>)
    \/ \E u \in Users : ConfessionDelivered(u, "k1")
    \/ \E u \in Users : ConfessionDeliveryFailed(u)
    \/ \E u \in Users : ConfessionThreaded(u)
    \/ \E u \in Users : ConfessionNotified(u)
    \/ \E u \in Users, g \in Guilds, id \in NachrichtInputs : Beichtantwort(u, g, id)
    \/ \E u \in Users, text \in {TextScenarioA} : ReplySubmit(u, text)
    \/ \E u \in Users : ReplyFetched(u)
    \/ \E u \in Users : ReplyFetchFailed(u)
    \/ \E u \in Users, relock \in BOOLEAN : ReplyDelivered(u, relock)
    \/ \E u \in Users : ReplyRelocked(u)
    \/ \E u \in Users : ReplyDeliveryFailed(u)
    \/ \E g \in Guilds : \E args \in {SetupTarget(g), SetupAll(g)} : Setup(g, args)
    \/ \E g \in Guilds : Reset(g)

Spec == Init /\ [][Next]_vars

\* The screening of the confessions and replies of two users against the
\* word lists the moderators set, at one instant of the clock.
NextScreen ==
    \/ \E u \in Users, g \in Guilds : Beichten(u, g)
    \/ \E u \in Users, text \in ScreenedTexts : ConfessionSubmit(u, text, <<>>, <<>>)
    \/ \E u \in Users : ConfessionDelivered(u, "k1")
    \/ \E u \in Users : ConfessionDeliveryFailed(u)
    \/ \E u \in Users : ConfessionThreaded(u)
    \/ \E u \in Users, g \in Guilds : Beichtantwort(u, g, <<"1">>)
    \/ \E u \in Users, text \in ScreenedTexts : ReplySubmit(u, text)
    \/ \E u \in Users : ReplyFetched(u)
    \/ \E u \in Users : ReplyFetchFailed(u)
    \/ \E u \in Users : ReplyDelivered(u, FALSE)
    \/ \E u \in Users : ReplyDeliveryFailed(u)
    \/ \E g \in Guilds : \E args \in {SetupTarget(g), SetupNoCooldown(g)} : Setup(g, args)
    \/ \E g \in Guilds, bl \in BlacklistInputs, wl \in WhitelistInputs : Woerter(g, bl, wl)

SpecScreen == Init /\ [][NextScreen]_vars

\* The rate limiter while time passes: admissions of two users, the word
\* lists, the moderators' overrides, setup and reset.
NextRate ==
    \/ Tick
    \/ \E u \in Users, g \in Guilds : Beichten(u, g)
    \/ \E u \in Users, text \in ScreenedTexts :
          ConfessionSubmit(u, text, <<>>, <<>>)
    \/ \E u \in Users : ConfessionDeliveryFailed(u)
    \/ \E g \in Guilds :
          \E args \in {SetupTarget(g), SetupShortCooldown(g), SetupNoCooldown(g)} :
             Setup(g, args)
    \/ \E g \in Guilds : Woerter(g, Some(BlacklistRaw), None)
    \/ \E g \in Guilds : \E user \in {None} \cup {Some(u) : u \in Users} :
          CooldownClear(g, user)
    \/ \E g \in Guilds : Reset(g)

SpecRate == Init /\ [][NextRate]_vars

\* What is handed to the platform: confessions with trigger words and with
\* a channel id of their own, replies, setup, the allowed channels and reset.
NextContent ==
    \/ \E u \in Users \ Responders, g \in Guilds : Beichten(u, g)
    \/ \E u \in Users \ Responders, trigger_value \in TriggerInputs, target_value \in TargetInputs :
          ConfessionSubmit(u, TextScenarioA, trigger_value, target_value)
    \/ \E u \in Users \ Responders : ConfessionDelivered(u, "k1")
    \/ \E u \in Users \ Responders : ConfessionDeliveryFailed(u)
    \/ \E u \in Users \ Responders : ConfessionThreaded(u)
    \/ \E u \in Responders, g \in Guilds : Beichtantwort(u, g, <<"1">>)
    \/ \E u \in Responders : ReplySubmit(u, TextScenarioA)
    \/ \E u \in Responders : ReplyFetched(u)
    \/ \E u \in Responders : ReplyFetchFailed(u)
    \/ \E u \in Responders : ReplyDelivered(u, FALSE)
    \/ \E u \in Responders : ReplyDeliveryFailed(u)
    \/ \E g \in Guilds : Setup(g, SetupNoCooldown(g))
    \/ \E g \in Guilds, ids \in KanaeleInputs : Kanaele(g, ids)
    \/ \E g \in Guilds : Reset(g)

SpecContent == Init /\ [][NextContent]_vars

\* Every operation that writes the store: the confessions, with a crisis
\* keyword, of one user, the replies and reports of another and the
\* administrators' commands.
NextOps ==
    \/ \E u \in Users \ Responders, g \in Guilds : Beichten(u, g)
    \/ \E u \in Users \ Responders : ConfessionSubmit(u, TextCrisis, <<>>, <<>>)
    \/ \E u \in Users \ Responders : ConfessionDelivered(u, "k1")
    \/ \E u \in Users \ Responders : ConfessionDeliveryFailed(u)
    \/ \E u \in Users \ Responders : ConfessionThreaded(u)
    \/ \E u \in Users \ Responders : ConfessionNotified(u)
    \/ \E u \in Responders, g \in Guilds : Beichtantwort(u, g, <<"1">>)
    \/ \E u \in Responders : ReplySubmit(u, TextCrisis)
    \/ \E u \in Responders : ReplyFetched(u)
    \/ \E u \in Responders : ReplyFetchFailed(u)
    \/ \E u \in Responders : ReplyDelivered(u, FALSE)
    \/ \E u \in Responders : ReplyDeliveryFailed(u)
    \/ \E u \in Responders, g \in Guilds : Melden(u, g, <<"1">>)
    \/ \E u \in Responders : ReportSubmit(u, TextShout)
    \/ \E u \in Responders : ReportDelivered(u)
    \/ \E u \in Responders : ReportFailed(u)
    \/ \E g \in Guilds : Setup(g, SetupAll(g))
    \/ \E g \in Guilds : Woerter(g, None, Some(WhitelistRaw))
    \/ \E g \in Guilds : Kanaele(g, Some(<<"1", "0">>))
    \/ \E g \in Guilds : Banner(g, Some(TextShout))
    \/ \E g \in Guilds : Reset(g)

SpecOps == Init /\ [][NextOps]_vars

(***************************************************************************)
(* The helpers on their own                                                *)
(***************************************************************************)
SpoilerAnswer(text) == Some([msg |-> "spoiler", text |-> spoiler_content(text)])

\* one text is at hand
InitSpoiler ==
    /\ data = default_data
    /\ cooldowns = <<>>
    /\ clock = 0
    /\ sess = [u \in Users |-> Idle]
    /\ posted = <<>>
    /\ request \in {Some([user |-> 1, text |-> t]) : t \in SpoilerTexts}
    /\ response = None
    /\ disk = [path |-> None, tmp |-> None]
    /\ proc = Ready

\* BeichtBot._spoiler_content is called with the text at hand
Spoil ==
    /\ response = None
    /\ response' = SpoilerAnswer(request[1].text)
    /\ UNCHANGED <<data, cooldowns, clock, sess, posted, request, disk, proc>>

\* BeichtBot._spoiler_content is called with what it returned
SpoilAgain ==
    /\ response # None
    /\ request' = Some([user |-> 1, text |-> response[1].text])
    /\ response' = SpoilerAnswer(response[1].text)
    /\ UNCHANGED <<data, cooldowns, clock, sess, posted, disk, proc>>

NextSpoiler == Spoil \/ SpoilAgain

SpecSpoiler == InitSpoiler /\ [][NextSpoiler]_vars

\* BeichtBot._create_hash is called for author id a and message id m; fresh
\* is what secrets.token_hex draws if the store has no secret yet
CreateHash(a, m, fresh) ==
    /\ LET s == secret(data, fresh)
       IN  /\ data' = s.data
           /\ response' = Some([msg |-> "token", token |-> create_hash(s.secret, a, m)])
    /\ request' = Some([user |-> a, message |-> m])
    /\ UNCHANGED <<cooldowns, clock, sess, posted>>
    /\ SavedAtOnce

NextToken ==
    \E a \in 1..MaxAuthorId, m \in 1..MaxMessageId, fresh \in Secrets :
        CreateHash(a, m, fresh)

SpecToken == Init /\ [][NextToken]_vars

(***************************************************************************)
(* The store on its own: its operations called one after the other by a    *)
(* caller, ConfigStore._save taken line by line, a write that fails, a     *)
(* crash of the process and its restart from the files.  Here request is   *)
(* the config the caller got from its last get_guild_config and response   *)
(* is what the last secret returned; both are the caller's and outlive the *)
(* process.                                                                *)
(***************************************************************************)
\* how far the caller of the store counts a counter up
MaxIncrements == 1

\* what record_hash is called with: message 1 and the token of one of two authors
HashIds == {create_hash("k1", 1, 1), create_hash("k1", 2, 1)}

\* a faulty _save: it opens the canonical file itself for writing
open_temp_in_place(dk, doc) == [dk EXCEPT !.path = FileOf(doc, FALSE)]

\* ConfigStore._save: temp.open("w") and json.dump under way; the temporary
\* file holds a part of the document
open_temp(dk, doc) == [dk EXCEPT !.tmp = FileOf(doc, FALSE)]

\* ConfigStore._save: json.dump is through and the with block closes the file
close_temp(dk, doc) == [dk EXCEPT !.tmp = FileOf(doc, TRUE)]

\* ConfigStore._save: temp.replace(self.path)
replace_temp(dk) == [path |-> dk.tmp, tmp |-> None]

\* an operation has changed _data to d1 and calls _save; todo is the document
\* it assigns and saves after that (None if this is its last save), ret what
\* it returns in the end
BeginSave(d1, todo, ret) ==
    /\ data' = d1
    /\ proc' = [pc |-> "saving", todo |-> todo, ret |-> ret]
    /\ UNCHANGED <<disk, request, response, cooldowns, clock, sess, posted>>

\* an operation that reads the config of g with get_guild_config, changes it
\* and hands it to set_guild_config, d2 being the store after that: an absent
\* guild is created and saved first
GetThenSet(g, d2) ==
    IF g \in DOMAIN data.guilds
    THEN BeginSave(d2, None, None)
    ELSE BeginSave(get_guild_config(data, g).data, Some(d2), None)

\* ConfigStore.get_guild_config called by the caller
StoreGet(g) ==
    /\ proc.pc = "ready"
    /\ LET got == get_guild_config(data, g)
       IN  IF g \in DOMAIN data.guilds
           THEN /\ request' = Some(got.cfg)
                /\ UNCHANGED <<data, disk, proc, response, cooldowns, clock, sess, posted>>
           ELSE BeginSave(got.data, None, Some([to |-> "request", value |-> got.cfg]))

\* ConfigStore.set_guild_config called with the config of an earlier get
StorePut ==
    /\ proc.pc = "ready"
    /\ request # None
    /\ BeginSave(set_guild_config(data, request[1]), None, None)

\* ConfigStore.increment_stat
StoreIncrement(g, key) ==
    /\ proc.pc = "ready"
    /\ get_guild_config(data, g).cfg.stats[key] < MaxIncrements
    /\ GetThenSet(g, increment_stat(data, g, key))

\* ConfigStore.record_hash
StoreRecordHash(g, message_id, hash_id) ==
    /\ proc.pc = "ready"
    /\ GetThenSet(g, record_hash(data, g, message_id, hash_id))

\* ConfigStore.reset_guild
StoreReset(g) ==
    /\ proc.pc = "ready"
    /\ IF g \in DOMAIN data.guilds
       THEN BeginSave(reset_guild(data, g), None, None)
       ELSE UNCHANGED vars

\* ConfigStore.secret
StoreSecret(fresh) ==
    /\ proc.pc = "ready"
    /\ LET s == secret(data, fresh)
       IN  IF data.hash_secret = None
           THEN BeginSave(s.data, None, Some([to |-> "response", value |-> s.secret]))
           ELSE /\ response' = Some([msg |-> "secret", value |-> s.secret])
                /\ UNCHANGED <<data, disk, proc, request, cooldowns, clock, sess, posted>>

\* ConfigStore._save: the temporary file is opened and the dump begins
SaveOpen ==
    /\ proc.pc = "saving"
    /\ disk' = open_temp(disk, data)
    /\ proc' = [proc EXCEPT !.pc = "writing"]
    /\ UNCHANGED <<data, request, response, cooldowns, clock, sess, posted>>

\* ConfigStore._save: the dump ends and the temporary file is closed
SaveClose ==
    /\ proc.pc = "writing"
    /\ disk' = close_temp(disk, data)
    /\ proc' = [proc EXCEPT !.pc = "replacing"]
    /\ UNCHANGED <<data, request, response, cooldowns, clock, sess, posted>>

\* ConfigStore._save: the temporary file replaces the canonical one and
\* _save returns; the operation saves again if it has more to write, and
\* returns to the caller if not
SaveReplace ==
    /\ proc.pc = "replacing"
    /\ disk' = replace_temp(disk)
    /\ IF proc.todo # None
       THEN /\ data' = proc.todo[1]
            /\ proc' = [pc |-> "saving", todo |-> None, ret |-> proc.ret]
            /\ UNCHANGED <<request, response>>
       ELSE /\ data' = data
            /\ proc' = Ready
            /\ request' = IF proc.ret # None /\ proc.ret[1].to = "request"
                          THEN Some(proc.ret[1].value) ELSE request
            /\ response' = IF proc.ret # None /\ proc.ret[1].to = "response"
                           THEN Some([msg |-> "secret", value |-> proc.ret[1].value])
                           ELSE response
    /\ UNCHANGED <<cooldowns, clock, sess, posted>>

\* ConfigStore._save raises OSError (mkdir, open, write or replace fails):
\* the operation ends with that exception, _data stays as the operation
\* left it and the files as the failed call left them; if it was _load that
\* saved, the constructor raises and the process does not come up
SaveFailed ==
    /\ proc.pc \in {"saving", "writing", "replacing"}
    /\ IF proc.ret # None /\ proc.ret[1].to = "init"
       THEN /\ proc' = [pc |-> "down", todo |-> None, ret |-> None]
            /\ data' = default_data
       ELSE /\ proc' = Ready
            /\ data' = data
    /\ UNCHANGED <<disk, request, response, cooldowns, clock, sess, posted>>

\* the process dies: _data is lost, the files stay as they are
Crash ==
    /\ proc.pc # "down"
    /\ proc' = [pc |-> "down", todo |-> None, ret |-> None]
    /\ data' = default_data
    /\ UNCHANGED <<disk, request, response, cooldowns, clock, sess, posted>>

\* ConfigStore.__init__ and _load in a new process; json.load raises on a
\* document that is not whole, and the process does not come up
Restart(fresh) ==
    /\ proc.pc = "down"
    /\ disk.path # None => disk.path[1].whole
    /\ IF disk.path = None
       THEN /\ data' = default_data
            /\ proc' = Ready
            /\ UNCHANGED <<disk, request, response, cooldowns, clock, sess, posted>>
       ELSE IF disk.path[1].doc.hash_secret = None
       THEN BeginSave([disk.path[1].doc EXCEPT !.hash_secret = Some(fresh)], None,
                      Some([to |-> "init", value |-> fresh]))
       ELSE /\ data' = disk.path[1].doc
            /\ proc' = Ready
            /\ UNCHANGED <<disk, request, response, cooldowns, clock, sess, posted>>

NextStore ==
    \/ \E g \in Guilds : StoreGet(g)
    \/ StorePut
    \/ \E g \in Guilds : StoreIncrement(g, "confessions")
    \/ \E g \in Guilds, h \in HashIds : StoreRecordHash(g, 1, h)
    \/ \E g \in Guilds : StoreReset(g)
    \/ \E fresh \in Secrets : StoreSecret(fresh)
    \/ SaveOpen
    \/ SaveClose
    \/ SaveReplace
    \/ SaveFailed
    \/ Crash
    \/ \E fresh \in Secrets : Restart(fresh)

SpecStore == Init /\ [][NextStore]_vars

(***************************************************************************)
(* The store with two guilds and writes that succeed: the guilds are read, *)
(* their word lists are set through set_lists and through a config the     *)
(* caller built itself, they are reset, the secret is drawn, and the       *)
(* process crashes and is started again from the files.                    *)
(***************************************************************************)
\* the guilds the callers of the store name
StoreGuilds == {1, 2}

\* ConfigStore.set_lists with the blacklist "Spam, is"
StoreSetLists(g) ==
    /\ proc.pc = "ready"
    /\ GetThenSet(g, set_lists(data, g, Some(StripNonEmpty(SplitComma(BlacklistRaw))), None).data)

\* ConfigStore.set_guild_config called with GuildConfig(guild_id=g,
\* blacklist={"Spam"}), a config the caller has built
StorePutBuilt(g) ==
    /\ proc.pc = "ready"
    /\ BeginSave(set_guild_config(data, [GuildConfig(g) EXCEPT !.blacklist = {<<"S", "p", "a", "m">>}]),
                 None, None)

NextGuilds ==
    \/ \E g \in StoreGuilds : StoreGet(g)
    \/ \E g \in StoreGuilds : StoreSetLists(g)
    \/ \E g \in StoreGuilds : StorePutBuilt(g)
    \/ \E g \in StoreGuilds : StoreReset(g)
    \/ \E fresh \in Secrets : StoreSecret(fresh)
    \/ SaveOpen
    \/ SaveClose
    \/ SaveReplace
    \/ Crash
    \/ \E fresh \in Secrets : Restart(fresh)

SpecGuilds == Init /\ [][NextGuilds]_vars

\* The cooldown ledger with two guilds: admissions of two users in both,
\* their submissions, which find no target channel, and the moderators'
\* overrides, while time passes.
NextClear ==
    \/ Tick
    \/ \E u \in Users, g \in StoreGuilds : Beichten(u, g)
    \/ \E u \in Users : ConfessionSubmit(u, TextScenarioA, <<>>, <<>>)
    \/ \E g \in StoreGuilds : \E user \in {None} \cup {Some(u) : u \in Users} :
          CooldownClear(g, user)

SpecClear == Init /\ [][NextClear]_vars

\* The setup command among the confessions of one user: setup with a
\* negative, a zero and a positive cooldown, with an auto-delete time of 0
\* and with omitted arguments, the word lists and reset, while confessions
\* that are flagged for a phone number or a crisis keyword are in flight.
SetupInputs(g) == {SetupNoCooldown(g), SetupShortCooldown(g), SetupAll(g)}

NextSetup ==
    \/ \E u \in Users \ Responders, g \in Guilds : Beichten(u, g)
    \/ \E u \in Users \ Responders, text \in {TextPhone, TextCrisis} :
          ConfessionSubmit(u, text, <<>>, <<>>)
    \/ \E u \in Users \ Responders : ConfessionDelivered(u, "k1")
    \/ \E u \in Users \ Responders : ConfessionDeliveryFailed(u)
    \/ \E u \in Users \ Responders : ConfessionThreaded(u)
    \/ \E u \in Users \ Responders : ConfessionNotified(u)
    \/ \E g \in Guilds : \E args \in SetupInputs(g) : Setup(g, args)
    \/ \E g \in Guilds : Woerter(g, Some(BlacklistRaw), Some(WhitelistRaw))
    \/ \E g \in Guilds : Reset(g)

SpecSetup == Init /\ [][NextSetup]_vars

(***************************************************************************)
(* What the properties speak of                                            *)
(***************************************************************************)
\* the config get(g) returns from the store d
GuildView(d, g) == get_guild_config(d, g).cfg

\* what the pipeline records for guild g in the store d
RecordedOf(d, g) ==
    LET cfg == GuildView(d, g)
    IN  [stats |-> cfg.stats, hashed_posts |-> cfg.hashed_posts,
         pii_flags |-> cfg.pii_flags, crisis_flags |-> cfg.crisis_flags]

\* the ids of the messages of one kind the platform delivered in guild g
DeliveredIds(g, kind) ==
    {m \in DOMAIN posted : posted[m].guild = g /\ posted[m].kind = kind}

\* this step removes the entry of guild g from the store
EntryRemoved(g) == g \in DOMAIN data.guilds /\ g \notin DOMAIN data'.guilds

\* this step is the one in which the confession of user u is delivered and recorded
ConfessionRecordedStep(u) == sess[u].pc = "sending" /\ sess'[u].pc = "threading"

\* this step is the one in which the delivered reply of user u is recorded
ReplyRecordedStep(u) ==
    /\ sess[u].pc \in {"reply_sending", "reply_relocking"}
    /\ sess'[u].pc = "idle"
    /\ response' = Some([msg |-> "reply_published"])

\* this step is the one that hears that the delivery of u's confession or
\* reply failed
DeliveryFailedStep(u) ==
    /\ sess[u].pc \in {"sending", "reply_sending"}
    /\ sess'[u].pc = "idle"
    /\ response' \in {Some([msg |-> "send_failed"]), Some([msg |-> "reply_send_failed"])}

(***************************************************************************)
(* C1: a delivered confession whose submitted text contains an e-mail      *)
(* address carries the PII advisory, its message id is in pii_flags after  *)
(* the recording and stats.confessions has grown by exactly 1.             *)
(***************************************************************************)
C1_EmailConfessionIsFlagged ==
    [][\A u \in Users :
        (ConfessionRecordedStep(u) /\ EMAIL_PATTERN(sess[u].text)) =>
            LET g == sess[u].guild
                m == sess'[u].message_id
            IN  /\ "pii" \in Advisory[sess[u].text].hints
                /\ m \in Range(GuildView(data', g).pii_flags)
                /\ GuildView(data', g).stats.confessions
                     = GuildView(data, g).stats.confessions + 1]_vars

(***************************************************************************)
(* C2: with the confessions of several users in flight at once, every      *)
(* delivered confession raises stats.confessions of its guild by exactly 1 *)
(* and no other step changes the counter (but a reset of the guild): no    *)
(* increment is lost.                                                      *)
(***************************************************************************)
C2_NoLostConfessionCount ==
    [][\A g \in Guilds :
        LET n == Cardinality({u \in Users : ConfessionRecordedStep(u) /\ sess[u].guild = g})
        IN  \/ GuildView(data', g).stats.confessions
                 = GuildView(data, g).stats.confessions + n
            \/ EntryRemoved(g)]_vars

\* two confessions overlapped and both are counted
C2_Witness ==
    /\ sess[1].pc = "threading" /\ sess[2].pc = "threading"
    /\ sess[1].guild = 1 /\ sess[2].guild = 1
    /\ GuildView(data, 1).stats.confessions = 2

(***************************************************************************)
(* C7: a failed delivery of a confession or of a reply records nothing.    *)
(* The step that hears of the failure leaves the store and the platform    *)
(* as they are; stats, hashed_posts and the flags of a guild change only   *)
(* in the step that records a delivered message (or by a reset); and in    *)
(* every state the keys of hashed_posts and the ids in pii_flags and       *)
(* crisis_flags are ids of delivered confessions of the guild.             *)
(***************************************************************************)
C7_OnlyDeliveredRecorded ==
    \A g \in DOMAIN data.guilds :
        LET cfg == GuildView(data, g)
        IN  /\ DOMAIN cfg.hashed_posts \subseteq DeliveredIds(g, "confession")
            /\ Range(cfg.pii_flags) \subseteq DeliveredIds(g, "confession")
            /\ Range(cfg.crisis_flags) \subseteq DeliveredIds(g, "confession")
            /\ cfg.stats.confessions <= Cardinality(DeliveredIds(g, "confession"))
            /\ cfg.stats.responses <= Cardinality(DeliveredIds(g, "reply"))

C7_FailureStep ==
    /\ \A u \in Users : DeliveryFailedStep(u) => data' = data /\ posted' = posted
    /\ \A g \in Guilds :
          RecordedOf(data', g) # RecordedOf(data, g) =>
              \/ \E u \in Users : ConfessionRecordedStep(u) \/ ReplyRecordedStep(u)
              \/ EntryRemoved(g)

C7_NothingRecordedOnFailure == []C7_OnlyDeliveredRecorded /\ [][C7_FailureStep]_vars

\* the delivery of a reply has just failed, after a confession was recorded
C7_Witness ==
    /\ response = Some([msg |-> "reply_send_failed"])
    /\ GuildView(data, 1).stats.confessions = 1
    /\ GuildView(data, 1).stats.responses = 0

(***************************************************************************)
(* C8: the step that records the delivered confession m of author a        *)
(* raises stats.confessions by exactly 1, stores                           *)
(* hashed_posts[m] = trace_token(a, m) under the store's secret, appends m *)
(* to pii_flags iff PII was detected and to crisis_flags iff a crisis      *)
(* keyword was detected, raises stats.ai_flags by exactly 1 iff the crisis *)
(* flag was recorded, and leaves the rest of what is recorded alone.       *)
(***************************************************************************)
C8_RecordingStep ==
    [][\A u \in Users :
        ConfessionRecordedStep(u) =>
            LET g      == sess[u].guild
                m      == sess'[u].message_id
                before == RecordedOf(data, g)
                after  == RecordedOf(data', g)
                crisis == Advisory[sess[u].text].crisis
                pii    == Advisory[sess[u].text].pii
            IN  /\ m = Len(posted') /\ posted'[m].kind = "confession"
                /\ data'.hash_secret # None
                /\ after.hashed_posts
                     = DictPut(before.hashed_posts, m,
                               create_hash(data'.hash_secret[1], u, m))
                /\ after.pii_flags
                     = IF pii THEN Append(before.pii_flags, m) ELSE before.pii_flags
                /\ after.crisis_flags
                     = IF crisis THEN Append(before.crisis_flags, m)
                       ELSE before.crisis_flags
                /\ after.stats
                     = [before.stats EXCEPT
                          !.confessions = @ + 1,
                          !.ai_flags = IF crisis THEN @ + 1 ELSE @]]_vars

\* a confession with a crisis keyword and one with a phone number are recorded
C8_Witness ==
    /\ sess[2].pc = "threading" /\ sess[2].text = TextCrisis
    /\ GuildView(data, 1).crisis_flags = <<2>>
    /\ GuildView(data, 1).pii_flags = <<1>>
    /\ GuildView(data, 1).stats.ai_flags = 1

(***************************************************************************)
(* C9: the step that records a delivered reply stores the trace token of   *)
(* (reply author, reply message id) in hashed_posts and raises             *)
(* stats.responses by exactly 1.                                           *)
(***************************************************************************)
C9_ReplyIsTraceable ==
    [][\A u \in Users :
        ReplyRecordedStep(u) =>
            LET g == sess[u].guild
                m == IF sess[u].pc = "reply_relocking"
                     THEN sess[u].message_id ELSE Len(posted')
            IN  /\ GuildView(data', g).stats.responses
                     = GuildView(data, g).stats.responses + 1
                /\ get_hash(data', g, m).hash # None
                /\ data'.hash_secret # None
                /\ get_hash(data', g, m).hash
                     = Some(create_hash(data'.hash_secret[1], u, m))]_vars

(***************************************************************************)
(* Steps of the commands and what they decide                              *)
(***************************************************************************)
\* this step is /beichten of user u (time stands still in it, and no other
\* step leaves a command of u as the last interaction with one of these
\* two answers)
AdmitStep(u) ==
    /\ clock' = clock
    /\ request' = Some([user |-> u, text |-> <<>>])
    /\ response' \in {Some([msg |-> "wait"]), Some([msg |-> "confession_modal"])}

AdmitAccepted(u) == AdmitStep(u) /\ response' = Some([msg |-> "confession_modal"])

AdmitRejected(u) == AdmitStep(u) /\ response' = Some([msg |-> "wait"])

\* this step is the submission of the confession modal of user u
SubmitStep(u) ==
    /\ sess[u].pc = "modal" /\ sess'[u].pc # "modal"
    /\ request' # None /\ request'[1].user = u

\* this step is the submission of the reply modal of user u
ReplySubmitStep(u) ==
    /\ sess[u].pc = "reply_modal" /\ sess'[u].pc # "reply_modal"
    /\ request' # None /\ request'[1].user = u

\* the time until which (g, u) is not eligible according to the ledger
ExpiryOf(ledger, g, u) == DictGet(ledger, <<g, u>>, 0)

\* the terms of the blacklist of cfg that occur in the lower-cased text
BlacklistHits(cfg, text) == {b \in cfg.blacklist : Occurs(b, Lower(text))}

\* no term of the whitelist of cfg occurs in the lower-cased text
WhitelistMissed(cfg, text) ==
    cfg.whitelist # {} /\ \A w \in cfg.whitelist : ~Occurs(w, Lower(text))

\* the answer is the rejection that names the blocked term
IsBlocked(r) == r # None /\ r[1].msg = "blocked"

(***************************************************************************)
(* C3: a confession whose text contains a blacklist term of the guild is   *)
(* rejected with a message that names such a term; the store, the          *)
(* platform and the cooldown ledger are left as they are, so that the      *)
(* window the author consumed at /beichten is not refunded: at every time  *)
(* before the stored expiry a further admit of (guild, author) is rejected *)
(* when cooldown_seconds > 0.                                              *)
(***************************************************************************)
C3_BlacklistRejection ==
    [][\A u \in Users :
        LET g   == sess[u].guild
            cfg == GuildView(data, g)
            C   == cfg.cooldown_seconds
        IN  (SubmitStep(u) /\ BlacklistHits(cfg, request'[1].text) # {}) =>
               /\ IsBlocked(response')
               /\ response'[1].term \in BlacklistHits(cfg, request'[1].text)
               /\ sess'[u] = Idle
               /\ \A h \in Guilds : GuildView(data', h) = GuildView(data, h)
               /\ data'.hash_secret = data.hash_secret
               /\ posted' = posted
               /\ cooldowns' = cooldowns
               /\ \A t \in clock..MaxTime :
                     (C > 0 /\ t < ExpiryOf(cooldowns, g, u)) =>
                         is_on_cooldown(cooldowns', g, u, C, t).on_cooldown]_vars

\* "Hello SPAM" was rejected for the term spam while the window of its
\* author is open
C3_Witness ==
    /\ request = Some([user |-> 1, text |-> TextShout])
    /\ response = Some([msg |-> "blocked", term |-> <<"s", "p", "a", "m">>])
    /\ clock < ExpiryOf(cooldowns, 1, 1)
    /\ GuildView(data, 1).cooldown_seconds > 0

(***************************************************************************)
(* C4: the rate limiter.  With cooldown_seconds = C > 0 an admit of        *)
(* (guild, author) is accepted only at or after the stored expiry and then *)
(* stores now + C as the new expiry; it is rejected only strictly before   *)
(* the stored expiry; with cooldown_seconds = 0 the admit is accepted and  *)
(* the ledger is left unchanged.                                           *)
(***************************************************************************)
C4_RateLimiter ==
    [][\A u \in Users :
        AdmitStep(u) =>
            \E g \in Guilds :
                LET C == GuildView(data, g).cooldown_seconds
                IN  /\ AdmitAccepted(u) => sess'[u].guild = g
                    /\ IF C > 0
                       THEN IF clock < ExpiryOf(cooldowns, g, u)
                            THEN AdmitRejected(u) /\ cooldowns' = cooldowns
                            ELSE /\ AdmitAccepted(u)
                                 /\ cooldowns' = DictPut(cooldowns, <<g, u>>, clock + C)
                       ELSE AdmitAccepted(u) /\ cooldowns' = cooldowns]_vars

\* one second after an accepted admit with cooldown 2 the author is rejected
C4_Witness ==
    /\ request = Some([user |-> 1, text |-> <<>>])
    /\ response = Some([msg |-> "wait"])
    /\ clock = 1
    /\ cooldowns = [k \in {<<1, 1>>} |-> 2]
    /\ GuildView(data, 1).cooldown_seconds = 2

(***************************************************************************)
(* C5: a rejected admit leaves the cooldown ledger as it is, and the       *)
(* expiry stored for a (guild, author) pair gets a new value only in an    *)
(* accepted admit of that pair.                                            *)
(***************************************************************************)
C5_RejectedAdmitKeepsLedger ==
    [][/\ \A u \in Users : AdmitRejected(u) => cooldowns' = cooldowns
       /\ \A k \in DOMAIN cooldowns' :
             (k \notin DOMAIN cooldowns \/ cooldowns'[k] # cooldowns[k]) =>
                 /\ AdmitAccepted(k[2])
                 /\ sess'[k[2]].guild = k[1]]_vars

\* a retry inside the window was rejected and the window still ends at 2
C5_Witness ==
    /\ response = Some([msg |-> "wait"])
    /\ request = Some([user |-> 2, text |-> <<>>])
    /\ clock = 1
    /\ ExpiryOf(cooldowns, 1, 2) = 2

(***************************************************************************)
(* C6: the word-list check of a submitted confession rejects the text when *)
(* some blacklist term occurs in the lower-cased text, whatever the        *)
(* whitelist holds; otherwise it rejects when the whitelist is non-empty   *)
(* and none of its terms occurs in the lower-cased text; otherwise it      *)
(* accepts.                                                                *)
(***************************************************************************)
C6_WordListDecision ==
    [][\A u \in Users :
        SubmitStep(u) =>
            LET cfg  == GuildView(data, sess[u].guild)
                text == request'[1].text
            IN  IF BlacklistHits(cfg, text) # {}
                THEN IsBlocked(response') /\ response'[1].term \in BlacklistHits(cfg, text)
                ELSE IF WhitelistMissed(cfg, text)
                THEN response' = Some([msg |-> "whitelist"])
                ELSE /\ ~IsBlocked(response')
                     /\ response' # Some([msg |-> "whitelist"])
                     /\ response' = None <=> sess'[u].pc = "sending"]_vars

\* "Hello SPAM" holds a term of the whitelist and is rejected for the blacklist
C6_Witness ==
    /\ request = Some([user |-> 1, text |-> TextShout])
    /\ IsBlocked(response)
    /\ GuildView(data, 1).whitelist = {<<"h", "e", "l", "l", "o">>}
    /\ GuildView(data, 1).blacklist = {<<"s", "p", "a", "m">>, <<"i", "s">>}

(***************************************************************************)
(* C10: replies pass the gates of confessions.  /beichtantwort of an       *)
(* author inside an unexpired cooldown window opens no reply modal, and a  *)
(* submitted reply whose text contains a blacklist term of the guild is    *)
(* rejected and not handed on towards delivery.                            *)
(***************************************************************************)
C10_RepliesPassTheGates ==
    [][\A u \in Users :
        /\ (sess[u].pc = "idle" /\ sess'[u].pc = "reply_modal") =>
              LET g == sess'[u].guild
              IN  ~(/\ GuildView(data, g).cooldown_seconds > 0
                    /\ clock < ExpiryOf(cooldowns, g, u))
        /\ ReplySubmitStep(u) =>
              (BlacklistHits(GuildView(data, sess[u].guild), request'[1].text) # {}
                  => sess'[u].pc = "idle" /\ IsBlocked(response'))]_vars

(***************************************************************************)
(* What is handed to the platform                                          *)
(***************************************************************************)
\* every "@" of s is followed at once by the zero-width space
Neutralized(s) ==
    \A i \in DOMAIN s : s[i] = "@" => (i < Len(s) /\ s[i + 1] = ZWSP)

\* this step is the one in which thread.send delivers the reply of user u
ReplyDeliveredStep(u) ==
    sess[u].pc = "reply_sending" /\ Len(posted') = Len(posted) + 1

(***************************************************************************)
(* C11: in the content handed to the platform, of a confession and of a    *)
(* reply, every "@" is followed by the zero-width space, whichever field   *)
(* of the modal it came from (text, reply, trigger words), and the text is *)
(* neutralised before it is wrapped as a spoiler.                          *)
(***************************************************************************)
C11_DeliveredContentNeutralized ==
    [][\A u \in Users :
        /\ ConfessionRecordedStep(u) =>
              /\ Neutralized(content_of(u))
              /\ EndsWith(content_of(u),
                          spoiler_content(neutralize_mentions(sess[u].text)))
        /\ ReplyDeliveredStep(u) =>
              /\ Neutralized(reply_content_of(u))
              /\ reply_content_of(u)
                   = spoiler_content(neutralize_mentions(sess[u].text))]_vars

(***************************************************************************)
(* C20: a confession submitted to a guild whose target_channel_id is unset *)
(* is not handed to delivery; it is rejected (at the latest as having no   *)
(* valid target), also when the modal names a channel id of its own.       *)
(***************************************************************************)
C20_TargetMustBeSet ==
    [][\A u \in Users :
        (SubmitStep(u) /\ GuildView(data, sess[u].guild).target_channel_id = None) =>
            /\ sess'[u].pc = "idle"
            /\ response' \in {Some([msg |-> "no_target"]),
                              Some([msg |-> "bad_channel_id"])}]_vars

(***************************************************************************)
(* C12: spoiler wrapping is idempotent: what _spoiler_content returned is  *)
(* returned unchanged when it is wrapped again; a text that is empty after *)
(* trimming comes back empty and unwrapped; a text that, trimmed, starts   *)
(* and ends with the marker comes back trimmed and not wrapped again.      *)
(***************************************************************************)
C12_SpoilerIdempotent ==
    response # None =>
        LET t       == request[1].text
            wrapped == response[1].text
            marker  == <<"|", "|">>
        IN  /\ spoiler_content(wrapped) = wrapped
            /\ Strip(t) = <<>> => wrapped = <<>>
            /\ (StartsWith(Strip(t), marker) /\ EndsWith(Strip(t), marker))
                  => wrapped = Strip(t)
            /\ wrapped # <<>> => (StartsWith(wrapped, marker) /\ EndsWith(wrapped, marker))

\* a wrapped text with white space in front came back trimmed
C12_Witness ==
    /\ request = Some([user |-> 1, text |-> <<" ", "|", "|", "|", "|">>])
    /\ response = Some([msg |-> "spoiler", text |-> <<"|", "|", "|", "|">>])

(***************************************************************************)
(* C19: under one secret, two calls of _create_hash with different         *)
(* (author id, message id) pairs never feed the same string to the keyed   *)
(* hash (author 1 / message 23 and author 12 / message 3 differ), and the  *)
(* token is the one of the secret and of the pair of this call alone.      *)
(***************************************************************************)
C19_TokenInputInjective ==
    [][(request # None /\ request' # None /\ data'.hash_secret = data.hash_secret) =>
          /\ response'[1].token[2] = data.hash_secret[1]
          /\ (request' # request => response'[1].token[3] # response[1].token[3])
          /\ (request' # request => response'[1].token # response[1].token)]_vars

\* the token of author 12 and message 3 was computed after another one
C19_Witness ==
    /\ request = Some([user |-> 12, message |-> 3])
    /\ response # None
    /\ response[1].token[3] = <<"1", "2", ":", "3">>

(***************************************************************************)
(* C13: whatever was done before, get(g) right after reset(g) returns the  *)
(* defaults of GuildConfig for g (all counters 0, no hashed posts, flags   *)
(* or lists, the default cooldown); a second reset(g) gives the same; and  *)
(* reset(g) of a guild without an entry changes nothing.                   *)
(***************************************************************************)
C13_ResetGivesDefaults ==
    /\ [](\A g \in Guilds :
            LET once  == reset_guild(data, g)
                twice == reset_guild(once, g)
            IN  /\ GuildView(once, g) = GuildConfig(g)
                /\ twice = once
                /\ GuildView(twice, g) = GuildConfig(g)
                /\ g \notin DOMAIN data.guilds => once = data
                /\ once.hash_secret = data.hash_secret)
    /\ [][\A g \in Guilds :
            EntryRemoved(g) =>
                /\ data' = reset_guild(data, g)
                /\ GuildView(data', g) = GuildConfig(g)
                /\ get_guild_config(data', g).data.guilds[g] = to_dict(GuildConfig(g))]_vars

\* the guild was reset after a confession had been delivered and recorded
C13_Witness ==
    /\ 1 \notin DOMAIN data.guilds
    /\ posted # <<>>
    /\ data.hash_secret # None

\* the names of the counters of a guild
CounterNames == {"confessions", "responses", "reports", "ai_flags"}

(***************************************************************************)
(* C14 as stated: for every guild and every counter (confessions,          *)
(* responses, reports, ai_flags), no operation, reset included, takes the  *)
(* counter below the value it had before.                                  *)
(***************************************************************************)
C14_CountersNeverDecrease ==
    [][\A g \in Guilds : \A k \in CounterNames :
          GuildView(data', g).stats[k] >= GuildView(data, g).stats[k]]_vars

(***************************************************************************)
(* C14 amended: a submission, reply, report, setup, set_lists, set_banner  *)
(* or update_allowed_channels never takes a counter of a guild below the   *)
(* value it had; reset(g) removes the entry of the guild, and with it the  *)
(* counters, which are 0 when the guild is read again.                     *)
(***************************************************************************)
C14_CountersDecreaseOnlyByReset ==
    [][\A g \in Guilds :
          IF EntryRemoved(g)
          THEN /\ data' = reset_guild(data, g)
               /\ \A k \in CounterNames : GuildView(data', g).stats[k] = 0
          ELSE \A k \in CounterNames :
                  GuildView(data', g).stats[k] >= GuildView(data, g).stats[k]]_vars

\* every counter of guild 1 has counted, and the banner was set after that
C14_Witness ==
    /\ 1 \in DOMAIN data.guilds
    /\ \A k \in CounterNames : GuildView(data, 1).stats[k] >= 1
    /\ GuildView(data, 1).banner_text # None

(***************************************************************************)
(* C15: hashed_posts is append-only: while the store is up, an entry       *)
(* hashed_posts[m] of a guild, once written, is there after every          *)
(* operation (a record for another message or a second one for m, a       *)
(* set_config of a config read earlier, setup, set_lists, reset) and maps  *)
(* m to the token it was written with.                                     *)
(***************************************************************************)
C15_HashedPostsAppendOnly ==
    [][(proc.pc # "down" /\ proc'.pc # "down") =>
          \A g \in Guilds :
              \A m \in DOMAIN GuildView(data, g).hashed_posts :
                  /\ m \in DOMAIN GuildView(data', g).hashed_posts
                  /\ GuildView(data', g).hashed_posts[m]
                       = GuildView(data, g).hashed_posts[m]]_vars

\* the document a store started now would load: the canonical file, or the
\* defaults if there is none
Durable == IF disk.path = None THEN default_data ELSE disk.path[1].doc

(***************************************************************************)
(* C16: the durable write is atomic for a crash of the process: wherever   *)
(* in a save the process dies, the canonical file is a whole document,     *)
(* the one that was durable before the save or the one being saved (it     *)
(* changes only in the replace, to exactly the document of this save), and *)
(* a store started from it loads it.                                       *)
(***************************************************************************)
C16_SaveIsCrashAtomic ==
    /\ [](disk.path # None => disk.path[1].whole)
    /\ [][/\ disk'.path # disk.path =>
                /\ proc.pc = "replacing"
                /\ disk'.path = FileOf(data, TRUE)
          /\ (proc.pc = "down" /\ proc'.pc # "down") =>
                /\ data'.guilds = Durable.guilds
                /\ Durable.hash_secret # None => data' = Durable]_vars

\* the process died while the temporary file was half written, and the
\* canonical file still holds the document that was durable before
C16_Witness ==
    /\ proc.pc = "down"
    /\ disk.tmp # None
    /\ ~disk.tmp[1].whole
    /\ disk.path # None
    /\ disk.path[1].whole
    /\ disk.path[1].doc # disk.tmp[1].doc

(***************************************************************************)
(* C17: reads reflect the last successful write: between two operations    *)
(* of the store, also after one whose write failed, get(g) returns for     *)
(* every guild the config of the last document that was persisted; the     *)
(* store never serves what was not persisted.                              *)
(***************************************************************************)
C17_ReadsReflectLastWrite ==
    proc.pc = "ready" =>
        \A g \in Guilds : GuildView(data, g) = GuildView(Durable, g)

(***************************************************************************)
(* C18: the secret is generated once: after secret() has returned s, every *)
(* later secret() returns s, whatever operations of the store and restarts *)
(* of the process lie between, and so the token of an author and a message *)
(* derived after a restart is the one derived before it.                   *)
(***************************************************************************)
C18_SecretNeverRegenerated ==
    [][(response # None /\ response' # None) =>
          /\ response'[1].value = response[1].value
          /\ create_hash(response'[1].value, 1, 1) = create_hash(response[1].value, 1, 1)]_vars

(***************************************************************************)
(* C21: a /beichten that the rate limiter rejects changes nothing: the     *)
(* document of the store, in memory and on disk (guild entries, stats,     *)
(* hashed_posts, flags, secret), and the cooldown ledger are after the     *)
(* attempt what they were before it, also when the guild was reset after   *)
(* the author's last admitted attempt.                                     *)
(***************************************************************************)
C21_RejectedAdmitChangesNothing ==
    [][\A u \in Users :
          AdmitRejected(u) =>
              /\ data' = data
              /\ disk' = disk
              /\ cooldowns' = cooldowns]_vars

(***************************************************************************)
(* C22: in every state of the store every entry of the blacklist and of    *)
(* the whitelist of every guild is lowercase, whether set_lists, a         *)
(* set_config with a config of the caller or a reload from the files wrote *)
(* it; hence a text that holds a configured term, in whatever case the     *)
(* term was configured and the text written, is rejected by the word-list  *)
(* check.                                                                  *)
(***************************************************************************)
C22_WordListsLowercase ==
    proc.pc # "down" =>
        \A g \in StoreGuilds :
            LET cfg == GuildView(data, g)
            IN  /\ \A w \in cfg.blacklist \cup cfg.whitelist : Lower(w) = w
                /\ (\E w \in cfg.blacklist : w # <<>> /\ Occurs(Lower(w), Lower(TextShout)))
                      => \A r \in check_word_lists(cfg, TextShout) : IsBlocked(r)

C23_RejectionNamesOneTerm ==
    \A g \in Guilds : \A text \in ScreenedTexts :
        LET cfg == GuildView(data, g)
        IN  Cardinality(BlacklistHits(cfg, text)) >= 2 =>
                Cardinality(check_word_lists(cfg, text)) = 1

(***************************************************************************)
(* C27: from a fresh store, through submissions, replies, reports, setup,  *)
(* set_lists, set_banner, update_allowed_channels and reset, every guild   *)
(* has stats.ai_flags = len(crisis_flags), in the store and in the file:   *)
(* the counter and the list advance together, by one, in one write.        *)
(***************************************************************************)
C27_AiFlagsCountCrisisFlags ==
    /\ [](\A g \in Guilds :
            /\ GuildView(data, g).stats.ai_flags = Len(GuildView(data, g).crisis_flags)
            /\ GuildView(Durable, g).stats.ai_flags = Len(GuildView(Durable, g).crisis_flags))
    /\ [][\A g \in Guilds :
            LET before == GuildView(data, g)
                after  == GuildView(data', g)
            IN  (after.stats.ai_flags > before.stats.ai_flags
                    \/ Len(after.crisis_flags) > Len(before.crisis_flags)) =>
                   /\ after.stats.ai_flags = before.stats.ai_flags + 1
                   /\ Len(after.crisis_flags) = Len(before.crisis_flags) + 1
                   /\ Durable' = data']_vars

\* two confessions with a crisis keyword were delivered and flagged
C27_Witness ==
    /\ GuildView(data, 1).stats.ai_flags = 2
    /\ GuildView(data, 1).crisis_flags = <<1, 2>>

(***************************************************************************)
(* C28: the ledger of a guild is consistent wherever another submission    *)
(* can run in between, every delivered message having an id of its own:    *)
(* (1) every id in pii_flags and in crisis_flags is a key of hashed_posts, *)
(* (2) no id is twice in pii_flags or twice in crisis_flags, and           *)
(* (3) stats.confessions is the number of keys of hashed_posts.            *)
(***************************************************************************)
C28_LedgerConsistent ==
    \A g \in Guilds :
        LET cfg == GuildView(data, g)
        IN  /\ Range(cfg.pii_flags) \cup Range(cfg.crisis_flags) \subseteq DOMAIN cfg.hashed_posts
            /\ Cardinality(Range(cfg.pii_flags)) = Len(cfg.pii_flags)
            /\ Cardinality(Range(cfg.crisis_flags)) = Len(cfg.crisis_flags)
            /\ cfg.stats.confessions = Cardinality(DOMAIN cfg.hashed_posts)

\* two confessions are recorded, one flagged for a phone number and one for
\* a crisis keyword, while a third submission waits for its delivery
C28_Witness ==
    /\ GuildView(data, 1).stats.confessions = 2
    /\ GuildView(data, 1).pii_flags # <<>>
    /\ GuildView(data, 1).crisis_flags # <<>>
    /\ \E u \in Users : sess[u].pc = "sending"

\* channel c passes the gate of the config cfg of guild g
Permitted(g, cfg, c) ==
    /\ c \in TextChannelsOf(g)
    /\ cfg.allowed_target_channels # {} => c \in cfg.allowed_target_channels

(***************************************************************************)
(* C29: target resolution is a gate.  A confession is handed to delivery,  *)
(* and delivered, only for a channel that is a text channel of the guild   *)
(* and, when allowed_target_channels of the config the handler read is not *)
(* empty, is in that set, be it the channel named in the modal or the      *)
(* default target_channel_id; a reply only for the default, under the same *)
(* gate, and into the thread of a message of that channel.  A default that *)
(* fails the gate gives the no-target rejection, and a rejection leaves    *)
(* stats, hashes, flags and the platform as they are.                      *)
(***************************************************************************)
C29_TargetGate ==
    [][\A u \in Users :
        LET g       == IF sess[u].guild \in Guilds THEN sess[u].guild ELSE 1
            cfg     == GuildView(data, g)
            default == cfg.target_channel_id
        IN  /\ (SubmitStep(u) /\ sess'[u].pc = "sending") =>
                  /\ sess'[u].target # None
                  /\ Permitted(g, cfg, sess'[u].target[1])
            /\ (SubmitStep(u) /\ sess'[u].pc # "sending") =>
                  /\ sess'[u] = Idle
                  /\ response' # None
                  /\ posted' = posted
                  /\ RecordedOf(data', g) = RecordedOf(data, g)
            /\ (SubmitStep(u) /\ response' = None /\ default # None
                  /\ ~Permitted(g, cfg, default[1])) =>
                  sess'[u].target # default
            /\ ReplySubmitStep(u) =>
                  IF default # None /\ Permitted(g, cfg, default[1])
                  THEN sess'[u].pc = "reply_fetching" /\ sess'[u].target = default
                  ELSE /\ response' = Some([msg |-> "no_target"])
                       /\ sess'[u] = Idle
                       /\ posted' = posted
                       /\ RecordedOf(data', g) = RecordedOf(data, g)
            /\ ConfessionRecordedStep(u) =>
                  posted'[Len(posted')].channel = sess[u].target[1]
            /\ (ReplyDeliveredStep(u) /\ sess'[u].pc # "reply_sending") =>
                  /\ posted'[Len(posted')].channel = ThreadOf(sess[u].reply_to)
                  /\ posted[sess[u].reply_to].channel = sess[u].target[1]]_vars

\* the default channel 10 is not among the allowed channels {11}: a
\* submission was answered that there is no valid target, after a confession
\* that named channel 11 had been delivered there
C29_Witness ==
    /\ response = Some([msg |-> "no_target"])
    /\ request # None
    /\ GuildView(data, 1).target_channel_id = Some(10)
    /\ GuildView(data, 1).allowed_target_channels = {11}
    /\ \E m \in DOMAIN posted : posted[m].kind = "confession" /\ posted[m].channel = 11

(***************************************************************************)
(* C30: setup keeps the configuration well-formed and touches only         *)
(* settings.  In every state cooldown_seconds is at least 0 and            *)
(* auto_delete_minutes is unset or at least 1, whatever integers setup was *)
(* given; and every setup step leaves the field of an omitted argument as  *)
(* it was and leaves stats, hashed_posts, pii_flags, crisis_flags,         *)
(* blacklist, whitelist and guild_id of the guild as they were, also while *)
(* a submission of the guild waits for its delivery.                       *)
(***************************************************************************)
C30_SetupKeepsConfigWellFormed ==
    /\ [](\A g \in Guilds :
            LET cfg == GuildView(data, g)
            IN  /\ cfg.cooldown_seconds >= 0
                /\ cfg.auto_delete_minutes # None => cfg.auto_delete_minutes[1] >= 1)
    /\ [][\A g \in Guilds : \A args \in SetupInputs(g) :
            Setup(g, args) =>
               LET old == GuildView(data, g)
                   new == GuildView(data', g)
               IN  /\ RecordedOf(data', g) = RecordedOf(data, g)
                   /\ new.blacklist = old.blacklist
                   /\ new.whitelist = old.whitelist
                   /\ new.guild_id = old.guild_id
                   /\ args.mod_channel = None =>
                         new.mod_channel_id = old.mod_channel_id
                   /\ args.cooldown = None =>
                         new.cooldown_seconds = old.cooldown_seconds
                   /\ args.auto_delete = None =>
                         new.auto_delete_minutes = old.auto_delete_minutes
                   /\ args.ai_moderation = None =>
                         new.allow_ai_moderation = old.allow_ai_moderation
                   /\ args.thread_lock = None =>
                         new.default_thread_lock = old.default_thread_lock]_vars

\* setup ran twice while a submission waited for its delivery: the handler
\* read a config without a moderation channel, the config now has one, its
\* auto-delete time was raised from 0 to 1 and was kept by the later call
\* that gave only a cooldown; a confession flagged for a phone number is
\* already on record and both word lists are set
C30_Witness ==
    \E u \in Users :
        /\ sess[u].pc = "sending"
        /\ sess[u].guild = 1
        /\ sess[u].mod_channel_id = None
        /\ LET cfg == GuildView(data, 1)
           IN  /\ cfg.mod_channel_id # None
               /\ cfg.auto_delete_minutes = Some(1)
               /\ cfg.cooldown_seconds = 2
               /\ cfg.stats.confessions >= 1
               /\ cfg.hashed_posts # <<>>
               /\ cfg.pii_flags # <<>>
               /\ cfg.blacklist # {}
               /\ cfg.whitelist # {}

\* the document d with the value of every trace token blotted out
Erased(d) ==
    [d EXCEPT !.guilds =
        [g \in DOMAIN d.guilds |->
            [d.guilds[g] EXCEPT !.hashed_posts = [m \in DOMAIN @ |-> <<"token">>]]]]

\* this step is one of a handler that serves user u
StepOf(u) ==
    \/ sess'[u] # sess[u]
    \/ request' # None /\ request' # request /\ request'[1].user = u

\* what a handler other than the recording of a confession writes: nothing,
\* the default entry of a guild it looked up, or one more reply or report
AuthorFreeWrites ==
    {Durable}
       \cup {get_guild_config(Durable, g).data : g \in Guilds}
       \cup {increment_stat(Durable, g, key) :
                g \in Guilds, key \in {"responses", "reports"}}

(***************************************************************************)
(* C25: the raw author identity never reaches persisted state.  Two runs   *)
(* that differ only in who the authors are take the same steps, so it is   *)
(* enough that every step writes the same document, trace tokens blotted   *)
(* out, for every author: the step that records the confession of user u   *)
(* leaves on disk, but for the token values, the document that lines       *)
(* 319-327 write for any author id, and every other step of a handler      *)
(* serving u leaves a document that is computed without an author id.      *)
(***************************************************************************)
C25_AuthorOnlyInToken ==
    [][\A u \in Users :
        LET g == sess[u].guild
            m == Len(posted) + 1
            WrittenFor(author, fresh) ==
                LET d1 == increment_stat(Durable, g, "confessions")
                    s  == secret(d1, fresh)
                    d2 == record_hash(s.data, g, m, create_hash(s.secret, author, m))
                IN  record_flag(d2, g, m, crisis_detected(u), pii_detected(u))
        IN  /\ ConfessionRecordedStep(u) =>
                  \E fresh \in Secrets : \A author \in 1..MaxAuthorId :
                     Erased(Durable') = Erased(WrittenFor(author, fresh))
            /\ (StepOf(u) /\ ~ConfessionRecordedStep(u)) =>
                  Durable' \in AuthorFreeWrites]_vars

\* the confession of user 2 is on disk under the token of user 2 and
\* message 1, beside a reply and a report of user 1
C25_Witness ==
    /\ Durable # default_data
    /\ LET cfg == GuildView(Durable, 1)
       IN  /\ 1 \in DOMAIN cfg.hashed_posts
           /\ cfg.hashed_posts[1] = create_hash("k1", 2, 1)
           /\ cfg.stats.confessions = 1
           /\ cfg.stats.responses >= 1
           /\ cfg.stats.reports >= 1
    /\ Erased(Durable) # Durable

=============================================================================
